---- MODULE Spec2Model ----
(***************************************************************************)
(* Log ingestion engine of the logs viewer (src/src/main.rs): the          *)
(* collection controller of LogsApp (start/stop/restart/drain/clear), the  *)
(* bounded log buffer (add_log_entry) and the producer worker thread with  *)
(* its mpsc channel.                                                       *)
(***************************************************************************)
EXTENDS Integers, Sequences, FiniteSets, TLC

\* ------------------------------------------------------------------ bounds
\* Collections (channel + worker thread pairs) ever created.
MaxCollections == 2
\* Lines read from child processes, all workers together.
MaxLines == 2
\* Chunks of output the pipe of a child's standard error holds before a write
\* to it blocks (PipeSpec).
PipeCap == 2
\* Direct add_log_entry calls since the last clear (BufSpec).
MaxAppends == 11001

\* --------------------------------------------------------- program constants
\* main.rs:470  if self.logs.len() > 10000
LogCap == 10000
\* main.rs:471  self.logs.drain(0..1000)
EvictCount == 1000

\* Option::None of log_receiver / log_thread_handle; Some(k) is k >= 1.
NoId == 0

\* A command string is the sequence of its characters.
\* Settings::default(): "journalctl -f"
DefaultCommand == << "j", "o", "u", "r", "n", "a", "l", "c", "t", "l", " ", "-", "f" >>
\* The values settings.log_command takes: the default, and a blank string.
Commands == { DefaultCommand, << " " >> }

Whitespace == { " ", "\t", "\n", "\r" }

\* str::split_whitespace: the maximal runs of non-whitespace characters, in order.
RECURSIVE SplitFrom(_, _, _)
SplitFrom(str, token, parts) ==
    LET closed == IF token = << >> THEN parts ELSE Append(parts, token)
    IN  IF str = << >> THEN closed
        ELSE IF Head(str) \in Whitespace THEN SplitFrom(Tail(str), << >>, closed)
        ELSE SplitFrom(Tail(str), Append(token, Head(str)), parts)
split_whitespace(str) == SplitFrom(str, << >>, << >>)

\* ------------------------------------------------------------------ strings
\* A String is the sequence of its characters, each a one-character string.
DigitChars == << "0", "1", "2", "3", "4", "5", "6", "7", "8", "9" >>
UpperChars == << "A", "B", "C", "D", "E", "F", "G", "H", "I", "J", "K", "L", "M",
                 "N", "O", "P", "Q", "R", "S", "T", "U", "V", "W", "X", "Y", "Z" >>
LowerChars == << "a", "b", "c", "d", "e", "f", "g", "h", "i", "j", "k", "l", "m",
                 "n", "o", "p", "q", "r", "s", "t", "u", "v", "w", "x", "y", "z" >>

IsDigit(c) == \E i \in DOMAIN DigitChars : DigitChars[i] = c
DigitVal(c) == (CHOOSE i \in DOMAIN DigitChars : DigitChars[i] = c) - 1
IsAlpha(c) == \E i \in DOMAIN UpperChars : UpperChars[i] = c \/ LowerChars[i] = c
IsSpace(c) == c \in Whitespace

\* char::to_lowercase on the letters of the model's alphabet
LowerChar(c) ==
    IF \E i \in DOMAIN UpperChars : UpperChars[i] = c
    THEN LowerChars[CHOOSE i \in DOMAIN UpperChars : UpperChars[i] = c]
    ELSE c

\* str::to_lowercase
to_lowercase(str) == [i \in 1..Len(str) |-> LowerChar(str[i])]

\* The slice of str that starts at index i and has n characters.
Slice(str, i, n) == SubSeq(str, i, i + n - 1)

\* str::contains(&str): pat occurs in str as a contiguous substring.
contains(str, pat) ==
    \E i \in 1..(Len(str) - Len(pat) + 1) : Slice(str, i, Len(pat)) = pat

\* str::trim_start, str::trim_end, str::trim
RECURSIVE trim_start(_)
trim_start(str) ==
    IF str # << >> /\ IsSpace(Head(str)) THEN trim_start(Tail(str)) ELSE str
RECURSIVE trim_end(_)
trim_end(str) ==
    IF str # << >> /\ IsSpace(str[Len(str)])
    THEN trim_end(SubSeq(str, 1, Len(str) - 1))
    ELSE str
trim(str) == trim_end(trim_start(str))

\* str::replace(pat, ""): every non-overlapping occurrence of pat, found from
\* left to right, is removed (pat is not empty).
RECURSIVE RemoveAll(_, _)
RemoveAll(str, pat) ==
    IF Len(str) < Len(pat) THEN str
    ELSE IF Slice(str, 1, Len(pat)) = pat
         THEN RemoveAll(SubSeq(str, Len(pat) + 1, Len(str)), pat)
         ELSE << Head(str) >> \o RemoveAll(Tail(str), pat)

\* A number written with at least `width` decimal digits, zero-padded.
RECURSIVE Decimal(_, _)
Decimal(n, width) ==
    IF n < 10 /\ width <= 1 THEN << DigitChars[n + 1] >>
    ELSE Decimal(n \div 10, width - 1) \o << DigitChars[(n % 10) + 1] >>

\* ---------------------------------------------------------------- calendar
SecondsPerMinute == 60
SecondsPerHour == 3600
SecondsPerDay == 86400
NanosPerSecond == 1000000000

IsLeapYear(year) == (year % 4 = 0 /\ year % 100 # 0) \/ year % 400 = 0

DaysInMonth(year, month) ==
    IF month = 2 THEN (IF IsLeapYear(year) THEN 29 ELSE 28)
    ELSE IF month \in {4, 6, 9, 11} THEN 30 ELSE 31

\* An Option (and a Result whose error is not looked at) is a sequence of at
\* most one element: None or Err is empty, Some(x) or Ok(x) holds x.
None == << >>
Some(x) == << x >>
IsSome(option) == option # << >>
Unwrap(option) == option[1]

\* chrono::NaiveDateTime: a calendar date, the second of the day and the
\* nanosecond (1,000,000,000 and above within a leap second).
NaiveDateTime(year, month, day, secs, nano) ==
    [ year |-> year, month |-> month, day |-> day, secs |-> secs, nano |-> nano ]

\* NaiveDate::from_ymd_opt(..).and_time(NaiveTime::from_hms_opt(..)) under `?`
from_ymd_hms_opt(year, month, day, hour, minute, second) ==
    IF /\ month \in 1..12
       /\ day \in 1..DaysInMonth(year, month)
       /\ hour \in 0..23
       /\ minute \in 0..59
       /\ second \in 0..59
    THEN Some(NaiveDateTime(year, month, day,
                            hour * SecondsPerHour + minute * SecondsPerMinute + second, 0))
    ELSE None

\* Days from 1970-01-01 to the date, and back (proleptic Gregorian calendar).
DaysFromCivil(year, month, day) ==
    LET y   == IF month <= 2 THEN year - 1 ELSE year
        era == y \div 400
        yoe == y - era * 400
        mp  == (month + 9) % 12
        doy == (153 * mp + 2) \div 5 + day - 1
        doe == yoe * 365 + yoe \div 4 - yoe \div 100 + doy
    IN  era * 146097 + doe - 719468

CivilFromDays(days) ==
    LET z   == days + 719468
        era == z \div 146097
        doe == z - era * 146097
        yoe == (doe - doe \div 1460 + doe \div 36524 - doe \div 146096) \div 365
        doy == doe - (365 * yoe + yoe \div 4 - yoe \div 100)
        mp  == (5 * doy + 2) \div 153
        d   == doy - (153 * mp + 2) \div 5 + 1
        m   == IF mp < 10 THEN mp + 3 ELSE mp - 9
        y   == yoe + era * 400
    IN  [ year |-> IF m <= 2 THEN y + 1 ELSE y, month |-> m, day |-> d ]

\* NaiveDateTime - Duration, the duration in whole seconds
SubSeconds(dt, seconds) ==
    LET total == dt.secs - seconds
        shift == total \div SecondsPerDay
        date  == CivilFromDays(DaysFromCivil(dt.year, dt.month, dt.day) + shift)
    IN  NaiveDateTime(date.year, date.month, date.day,
                      total - shift * SecondsPerDay, dt.nano)

\* a <= b on NaiveDateTime
DateTimeLeq(a, b) ==
    LET ka == << a.year, a.month, a.day, a.secs, a.nano >>
        kb == << b.year, b.month, b.day, b.secs, b.nano >>
    IN  \/ ka = kb
        \/ \E i \in 1..5 : ka[i] < kb[i] /\ \A j \in 1..(i - 1) : ka[j] = kb[j]

\* dt.format("%Y-%m-%d %H:%M:%S"): the canonical form; a leap second prints as 60.
FormatDateTime(dt) ==
    LET hour   == dt.secs \div SecondsPerHour
        minute == (dt.secs % SecondsPerHour) \div SecondsPerMinute
        second == (dt.secs % SecondsPerMinute) + (IF dt.nano >= NanosPerSecond THEN 1 ELSE 0)
    IN  Decimal(dt.year, 4) \o << "-" >> \o Decimal(dt.month, 2) \o << "-" >>
        \o Decimal(dt.day, 2) \o << " " >> \o Decimal(hour, 2) \o << ":" >>
        \o Decimal(minute, 2) \o << ":" >> \o Decimal(second, 2)

\* ---------------------------------------------------- chrono::format parsing
\* A format string split into its items: "%Y" and the like, " " for
\* whitespace, any other character a literal.
FormatItems ==
    [ iso_ms_z      |-> << "%Y", "-", "%m", "-", "%d", "T", "%H", ":", "%M", ":", "%S", "%.3f", "Z" >>,
      datetime_ms   |-> << "%Y", "-", "%m", "-", "%d", " ", "%H", ":", "%M", ":", "%S", "%.3f" >>,
      datetime      |-> << "%Y", "-", "%m", "-", "%d", " ", "%H", ":", "%M", ":", "%S" >>,
      syslog        |-> << "%b", " ", "%d", " ", "%H", ":", "%M", ":", "%S" >>,
      time_ms       |-> << "%H", ":", "%M", ":", "%S", "%.3f" >>,
      time          |-> << "%H", ":", "%M", ":", "%S" >>,
      slash         |-> << "%m", "/", "%d", "/", "%Y", " ", "%H", ":", "%M", ":", "%S" >>,
      unix          |-> << "unix" >>,
      date_hm       |-> << "%Y", "-", "%m", "-", "%d", " ", "%H", ":", "%M" >>,
      date_h        |-> << "%Y", "-", "%m", "-", "%d", " ", "%H" >>,
      date          |-> << "%Y", "-", "%m", "-", "%d" >> ]

\* format::Parsed with nothing set
EmptyParsed ==
    [ year |-> None, month |-> None, day |-> None,
      hour |-> None, minute |-> None, second |-> None, nano |-> None ]

\* The field a numeric item sets and the most digits it takes.
NumericField ==
    [ Y |-> [field |-> "year", width |-> 4],
      m |-> [field |-> "month", width |-> 2],
      d |-> [field |-> "day", width |-> 2],
      H |-> [field |-> "hour", width |-> 2],
      M |-> [field |-> "minute", width |-> 2],
      S |-> [field |-> "second", width |-> 2] ]
NumericItems == << "%Y", "%m", "%d", "%H", "%M", "%S" >>
NumericKeys == << "Y", "m", "d", "H", "M", "S" >>
IsNumericItem(item) == \E i \in DOMAIN NumericItems : NumericItems[i] = item
NumericOf(item) == NumericField[NumericKeys[CHOOSE i \in DOMAIN NumericItems : NumericItems[i] = item]]

\* The number of leading decimal digits of str, at most max.
RECURSIVE DigitRun(_, _)
DigitRun(str, max) ==
    IF max = 0 \/ str = << >> \/ ~IsDigit(Head(str)) THEN 0
    ELSE 1 + DigitRun(Tail(str), max - 1)

\* The value of a string of decimal digits.
RECURSIVE DigitsValue(_)
DigitsValue(digits) ==
    IF digits = << >> THEN 0
    ELSE DigitsValue(SubSeq(digits, 1, Len(digits) - 1)) * 10 + DigitVal(digits[Len(digits)])

RECURSIVE Pow10(_)
Pow10(n) == IF n = 0 THEN 1 ELSE 10 * Pow10(n - 1)

MonthNames == << << "j", "a", "n" >>, << "f", "e", "b" >>, << "m", "a", "r" >>,
                 << "a", "p", "r" >>, << "m", "a", "y" >>, << "j", "u", "n" >>,
                 << "j", "u", "l" >>, << "a", "u", "g" >>, << "s", "e", "p" >>,
                 << "o", "c", "t" >>, << "n", "o", "v" >>, << "d", "e", "c" >> >>

\* format::parse over the items from the k-th on: the fields set so far and the
\* input still to be read. None on a mismatch, and on input left over at the end.
RECURSIVE ParseItems(_, _, _, _)
ParseItems(items, k, str, parsed) ==
    IF k > Len(items) THEN (IF str = << >> THEN Some(parsed) ELSE None)
    ELSE LET item == items[k]
         IN  IF item = " " THEN ParseItems(items, k + 1, trim_start(str), parsed)
             ELSE IF IsNumericItem(item) THEN
                 \* a number of 1..width digits, after any whitespace (no sign here)
                 LET spec == NumericOf(item)
                     rest == trim_start(str)
                     n    == DigitRun(rest, spec.width)
                 IN  IF n = 0 THEN None
                     ELSE ParseItems(items, k + 1, SubSeq(rest, n + 1, Len(rest)),
                                     [parsed EXCEPT ![spec.field] = Some(DigitsValue(SubSeq(rest, 1, n)))])
             ELSE IF item = "%.3f" THEN
                 \* a dot and the digits after it, when the input has a dot here
                 IF str # << >> /\ Head(str) = "."
                 THEN LET n   == DigitRun(Tail(str), 9)
                          all == DigitRun(Tail(str), Len(str))
                      IN  IF n = 0 THEN None
                          ELSE ParseItems(items, k + 1, SubSeq(str, all + 2, Len(str)),
                                          [parsed EXCEPT !.nano =
                                              Some(DigitsValue(SubSeq(str, 2, n + 1)) * Pow10(9 - n))])
                 ELSE ParseItems(items, k + 1, str, parsed)
             ELSE IF item = "%b" THEN
                 \* the three letters of a month, in either case
                 IF Len(str) >= 3 /\ \E i \in DOMAIN MonthNames :
                                        MonthNames[i] = to_lowercase(Slice(str, 1, 3))
                 THEN ParseItems(items, k + 1, SubSeq(str, 4, Len(str)),
                                 [parsed EXCEPT !.month = Some(CHOOSE i \in DOMAIN MonthNames :
                                        MonthNames[i] = to_lowercase(Slice(str, 1, 3)))])
                 ELSE None
             ELSE IF str # << >> /\ Head(str) = item
                  THEN ParseItems(items, k + 1, Tail(str), parsed)
                  ELSE None

\* Parsed::to_naive_date: year, month and day are needed and must name a day.
to_naive_date(parsed) ==
    IF parsed.year = None \/ parsed.month = None \/ parsed.day = None THEN None
    ELSE LET year == Unwrap(parsed.year)
             month == Unwrap(parsed.month)
             day == Unwrap(parsed.day)
         IN  IF month \in 1..12 /\ day \in 1..DaysInMonth(year, month)
             THEN Some([year |-> year, month |-> month, day |-> day])
             ELSE None

\* Parsed::to_naive_time: hour and minute are needed, the second defaults to 0
\* and 60 is read as a leap second.
to_naive_time(parsed) ==
    IF parsed.hour = None \/ parsed.minute = None THEN None
    ELSE LET hour   == Unwrap(parsed.hour)
             minute == Unwrap(parsed.minute)
             second == IF parsed.second = None THEN 0 ELSE Unwrap(parsed.second)
             nano   == IF parsed.nano = None THEN 0 ELSE Unwrap(parsed.nano)
         IN  IF hour \in 0..23 /\ minute \in 0..59 /\ second \in 0..60
             THEN Some([ secs |-> hour * SecondsPerHour + minute * SecondsPerMinute
                                  + (IF second = 60 THEN 59 ELSE second),
                         nano |-> IF second = 60 THEN NanosPerSecond + nano ELSE nano ])
             ELSE None

\* NaiveDateTime::parse_from_str(str, format): Ok only if the whole of str is
\* read and gives both a date and a time.
ParseDateTime(str, items) ==
    LET parsed == ParseItems(items, 1, str, EmptyParsed)
    IN  IF parsed = None THEN None
        ELSE LET date == to_naive_date(Unwrap(parsed))
                 time == to_naive_time(Unwrap(parsed))
             IN  IF date = None \/ time = None THEN None
                 ELSE Some(NaiveDateTime(Unwrap(date).year, Unwrap(date).month, Unwrap(date).day,
                                         Unwrap(time).secs, Unwrap(time).nano))

\* NaiveDate::parse_from_str(str, format)
ParseDate(str, items) ==
    LET parsed == ParseItems(items, 1, str, EmptyParsed)
    IN  IF parsed = None THEN None ELSE to_naive_date(Unwrap(parsed))

\* str.parse::<i64>() of decimal digits, then DateTime::from_timestamp(.., 0)
\* and naive_local(): the UTC date and time that many seconds after 1970-01-01.
\* The division by 86,400 is done digit by digit.
RECURSIVE DivModDay(_, _, _)
DivModDay(digits, quotient, remainder) ==
    IF digits = << >> THEN [days |-> quotient, secs |-> remainder]
    ELSE LET acc == remainder * 10 + DigitVal(Head(digits))
         IN  DivModDay(Tail(digits), quotient * 10 + acc \div SecondsPerDay, acc % SecondsPerDay)
FromUnixTimestamp(digits) ==
    LET split == DivModDay(digits, 0, 0)
        date  == CivilFromDays(split.days)
    IN  Some(NaiveDateTime(date.year, date.month, date.day, split.secs, 0))

\* -------------------------------------------------------------------- regex
\* A pattern is a list of alternatives in order of preference (an optional
\* group gives one alternative with it and a later one without); an alternative
\* is a list of items, each a character class repeated min..max times.
Unbounded == -1
Digits(n) == [cls |-> "d", ch |-> "", min |-> n, max |-> n]
DigitsBetween(lo, hi) == [cls |-> "d", ch |-> "", min |-> lo, max |-> hi]
Letters(n) == [cls |-> "a", ch |-> "", min |-> n, max |-> n]
Spaces == [cls |-> "s", ch |-> "", min |-> 1, max |-> Unbounded]
Char(c) == [cls |-> "=", ch |-> c, min |-> 1, max |-> 1]

InClass(c, item) ==
    IF item.cls = "d" THEN IsDigit(c)
    ELSE IF item.cls = "a" THEN IsAlpha(c)
    ELSE IF item.cls = "s" THEN IsSpace(c)
    ELSE c = item.ch

\* The positions right after a match of the items from the k-th on that starts
\* at position i of str.
RECURSIVE MatchEnds(_, _, _, _)
MatchEnds(items, k, str, i) ==
    IF k > Len(items) THEN {i}
    ELSE LET item == items[k]
             room == Len(str) - i + 1
             most == IF item.max = Unbounded \/ item.max > room THEN room ELSE item.max
         IN  UNION { MatchEnds(items, k + 1, str, i + n) :
                       n \in { m \in item.min..most :
                                 \A j \in i..(i + m - 1) : InClass(str[j], item) } }

SetMax(S) == CHOOSE x \in S : \A y \in S : y <= x

\* Regex::captures(str).get(1): the leftmost match, by the first alternative
\* that matches there, as long as its repetitions allow; None without a match.
\* The one capture group of each pattern spans the whole match.
Captures(alternatives, str) ==
    LET Matches(i) == \E a \in DOMAIN alternatives : MatchEnds(alternatives[a], 1, str, i) # {}
    IN  IF \E i \in 1..Len(str) : Matches(i)
        THEN LET i == CHOOSE p \in 1..Len(str) : Matches(p) /\ \A q \in 1..(p - 1) : ~Matches(q)
                 a == CHOOSE b \in DOMAIN alternatives :
                         /\ MatchEnds(alternatives[b], 1, str, i) # {}
                         /\ \A c \in 1..(b - 1) : MatchEnds(alternatives[c], 1, str, i) = {}
                 e == SetMax(MatchEnds(alternatives[a], 1, str, i))
             IN  Some(SubSeq(str, i, e - 1))
        ELSE None

\* \d{4}-\d{2}-\d{2}, \d{2}:\d{2}:\d{2} and \.\d{3}
DateItems == << Digits(4), Char("-"), Digits(2), Char("-"), Digits(2) >>
TimeItems == << Digits(2), Char(":"), Digits(2), Char(":"), Digits(2) >>
MillisItems == << Char("."), Digits(3) >>

\* -------------------------------------------------- timestamp extraction
\* The patterns of extract_timestamp_from_log with their formats, in order.
Patterns ==
    << \* (\d{4}-\d{2}-\d{2}T\d{2}:\d{2}:\d{2}(?:\.\d{3})?Z?)
       [ regex  |-> << DateItems \o << Char("T") >> \o TimeItems \o MillisItems \o << Char("Z") >>,
                       DateItems \o << Char("T") >> \o TimeItems \o MillisItems,
                       DateItems \o << Char("T") >> \o TimeItems \o << Char("Z") >>,
                       DateItems \o << Char("T") >> \o TimeItems >>,
         format |-> FormatItems.iso_ms_z ],
       \* (\d{4}-\d{2}-\d{2}\s+\d{2}:\d{2}:\d{2}(?:\.\d{3})?)
       [ regex  |-> << DateItems \o << Spaces >> \o TimeItems \o MillisItems,
                       DateItems \o << Spaces >> \o TimeItems >>,
         format |-> FormatItems.datetime_ms ],
       \* (\d{4}-\d{2}-\d{2}\s+\d{2}:\d{2}:\d{2})
       [ regex  |-> << DateItems \o << Spaces >> \o TimeItems >>,
         format |-> FormatItems.datetime ],
       \* ([A-Za-z]{3}\s+\d{1,2}\s+\d{2}:\d{2}:\d{2})
       [ regex  |-> << << Letters(3), Spaces, DigitsBetween(1, 2), Spaces >> \o TimeItems >>,
         format |-> FormatItems.syslog ],
       \* (\d{2}:\d{2}:\d{2}\.\d{3})
       [ regex  |-> << TimeItems \o MillisItems >>,
         format |-> FormatItems.time_ms ],
       \* (\d{2}:\d{2}:\d{2})
       [ regex  |-> << TimeItems >>,
         format |-> FormatItems.time ],
       \* (\d{2}/\d{2}/\d{4}\s+\d{2}:\d{2}:\d{2})
       [ regex  |-> << << Digits(2), Char("/"), Digits(2), Char("/"), Digits(4), Spaces >> \o TimeItems >>,
         format |-> FormatItems.slash ],
       \* (\d{10})
       [ regex  |-> << << Digits(10) >> >>,
         format |-> FormatItems.unix ] >>

\* The body of the loop for one pattern: the captured substring, if the
\* pattern matches, and what it parses to under the pattern's format. now is
\* Local::now(), read for the year of a syslog timestamp.
Captured(pattern, content) == Captures(pattern.regex, content)
ParseCaptured(pattern, timestamp_str, now) ==
    IF pattern.format = FormatItems.unix
    THEN FromUnixTimestamp(timestamp_str)
    ELSE IF \E i \in DOMAIN pattern.format : pattern.format[i] = "%b"
    THEN ParseDateTime(Decimal(now.year, 1) \o << " " >> \o timestamp_str,
                       << "%Y", " " >> \o pattern.format)
    ELSE ParseDateTime(timestamp_str, pattern.format)

\* LogsApp::extract_timestamp_from_log: the first pattern, from the k-th on,
\* that matches and whose capture parses gives the canonical timestamp and the
\* content without the captured text, trimmed; otherwise no timestamp and the
\* content as it came.
RECURSIVE ExtractFrom_first_match_ends(_, _, _)
ExtractFrom_first_match_ends(k, content, now) ==
    IF k > Len(Patterns) THEN [timestamp |-> None, content |-> content]
    ELSE LET capture == Captured(Patterns[k], content)
             parsed  == IF capture = None THEN None
                        ELSE ParseCaptured(Patterns[k], Unwrap(capture), now)
         IN  IF capture = None THEN ExtractFrom_first_match_ends(k + 1, content, now)
             ELSE IF parsed = None THEN [timestamp |-> None, content |-> content]
             ELSE [ timestamp |-> Some(FormatDateTime(Unwrap(parsed))),
                    content   |-> trim(RemoveAll(content, Unwrap(capture))) ]
RECURSIVE ExtractFrom(_, _, _)
ExtractFrom(k, content, now) ==
    IF k > Len(Patterns) THEN [timestamp |-> None, content |-> content]
    ELSE LET capture == Captured(Patterns[k], content)
             parsed  == IF capture = None THEN None
                        ELSE ParseCaptured(Patterns[k], Unwrap(capture), now)
         IN  IF parsed = None THEN ExtractFrom(k + 1, content, now)
             ELSE [ timestamp |-> Some(FormatDateTime(Unwrap(parsed))),
                    content   |-> trim(RemoveAll(content, Unwrap(capture))) ]
extract_timestamp_from_log(content, now) == ExtractFrom(1, content, now)

\* ---------------------------------------------------------------- filtering
\* TimeSpanMode
Disabled == << "Disabled" >>
Predefined(span) == << "Predefined", span >>
Custom == << "Custom" >>
Relative == << "Relative" >>

\* PredefinedSpan, in the order of the Time Span selector
PredefinedSpans ==
    << "Last15Minutes", "Last30Minutes", "Last1Hour", "Last6Hours",
       "Last24Hours", "Last3Days", "Last1Week", "Last1Month" >>

\* PredefinedSpan::to_duration, in seconds
span_to_duration(span) ==
    CASE span = "Last15Minutes" -> 15 * SecondsPerMinute
      [] span = "Last30Minutes" -> 30 * SecondsPerMinute
      [] span = "Last1Hour"     -> 1 * SecondsPerHour
      [] span = "Last6Hours"    -> 6 * SecondsPerHour
      [] span = "Last24Hours"   -> 1 * SecondsPerDay
      [] span = "Last3Days"     -> 3 * SecondsPerDay
      [] span = "Last1Week"     -> 7 * SecondsPerDay
      [] span = "Last1Month"    -> 30 * SecondsPerDay

\* TimeUnit and TimeUnit::to_duration, in seconds
TimeUnits == { "Minutes", "Hours", "Days" }
unit_to_duration(unit, amount) ==
    CASE unit = "Minutes" -> amount * SecondsPerMinute
      [] unit = "Hours"   -> amount * SecondsPerHour
      [] unit = "Days"    -> amount * SecondsPerDay

\* LogsApp::get_time_range; now is Local::now(), read in the Predefined and
\* the Relative arm only. app holds the filter fields of LogsApp.
get_time_range_to_second_0(app, now) ==
    LET mode == app.time_span_mode
        f    == app.custom_from
        t    == app.custom_to
        from == from_ymd_hms_opt(f.year, f.month, f.day, f.hour, f.minute, 0)
        to   == from_ymd_hms_opt(t.year, t.month, t.day, t.hour, t.minute, 0)
    IN  IF mode = Disabled THEN None
        ELSE IF mode = Custom
        THEN IF from = None \/ to = None THEN None
             ELSE Some([from |-> Unwrap(from), to |-> Unwrap(to)])
        ELSE IF mode = Relative
        THEN Some([ from |-> SubSeconds(now, unit_to_duration(app.relative_unit, app.relative_amount)),
                    to   |-> now ])
        ELSE Some([from |-> SubSeconds(now, span_to_duration(mode[2])), to |-> now])
get_time_range(app, now) ==
    LET mode == app.time_span_mode
        f    == app.custom_from
        t    == app.custom_to
        from == from_ymd_hms_opt(f.year, f.month, f.day, f.hour, f.minute, 0)
        to   == from_ymd_hms_opt(t.year, t.month, t.day, t.hour, t.minute, 59)
    IN  IF mode = Disabled THEN None
        ELSE IF mode = Custom
        THEN IF from = None \/ to = None THEN None
             ELSE Some([from |-> Unwrap(from), to |-> Unwrap(to)])
        ELSE IF mode = Relative
        THEN Some([ from |-> SubSeconds(now, unit_to_duration(app.relative_unit, app.relative_amount)),
                    to   |-> now ])
        ELSE Some([from |-> SubSeconds(now, span_to_duration(mode[2])), to |-> now])

\* LogsApp::parse_time_input: the trimmed input under "%Y-%m-%d %H:%M:%S",
\* "%Y-%m-%d %H:%M", "%Y-%m-%d %H", then the date alone at 00:00:00.
parse_time_input(input) ==
    LET trimmed == trim(input)
        full    == ParseDateTime(trimmed, FormatItems.datetime)
        hm      == ParseDateTime(trimmed, FormatItems.date_hm)
        h       == ParseDateTime(trimmed, FormatItems.date_h)
        date    == ParseDate(trimmed, FormatItems.date)
    IN  IF trimmed = << >> THEN None
        ELSE IF full # None THEN full
        ELSE IF hm # None THEN hm
        ELSE IF h # None THEN h
        ELSE IF date # None
        THEN LET d == Unwrap(date) IN from_ymd_hms_opt(d.year, d.month, d.day, 0, 0, 0)
        ELSE None

\* matches_filter of filtered_logs
matches_filter_same_polarity(app, content) ==
    IF app.selected_log_levels = {} THEN TRUE
    ELSE LET content_lower == to_lowercase(content)
             contains_selected_level ==
                 \E level \in app.selected_log_levels :
                     contains(content_lower, to_lowercase(level))
         IN  contains_selected_level
matches_filter(app, content) ==
    IF app.selected_log_levels = {} THEN TRUE
    ELSE LET content_lower == to_lowercase(content)
             contains_selected_level ==
                 \E level \in app.selected_log_levels :
                     contains(content_lower, to_lowercase(level))
         IN  IF app.filter_mode = "IncludeSelected"
             THEN contains_selected_level
             ELSE ~contains_selected_level

\* matches_search of filtered_logs
matches_search_content_only(app, timestamp, content) ==
    IF app.search_text = << >> THEN TRUE
    ELSE contains(to_lowercase(content), to_lowercase(app.search_text))
matches_search(app, timestamp, content) ==
    IF app.search_text = << >> THEN TRUE
    ELSE \/ contains(to_lowercase(content), to_lowercase(app.search_text))
         \/ contains(to_lowercase(timestamp), to_lowercase(app.search_text))

\* matches_time of filtered_logs for a timestamp string and the resolved range
InRange_exclusive(entry_time, range) ==
    IF range = None \/ entry_time = None THEN TRUE
    ELSE /\ ~DateTimeLeq(Unwrap(entry_time), Unwrap(range).from)
         /\ ~DateTimeLeq(Unwrap(range).to, Unwrap(entry_time))
InRange(entry_time, range) ==
    IF range = None \/ entry_time = None THEN TRUE
    ELSE /\ DateTimeLeq(Unwrap(range).from, Unwrap(entry_time))
         /\ DateTimeLeq(Unwrap(entry_time), Unwrap(range).to)
matches_time_hides_unparsed(app, timestamp, now) ==
    LET range == get_time_range(app, now)
    IN  IF range = None THEN TRUE
        ELSE parse_time_input(timestamp) # None /\ InRange(parse_time_input(timestamp), range)
matches_time(app, timestamp, now) ==
    LET range == get_time_range(app, now)
    IN  IF range = None THEN TRUE
        ELSE InRange(parse_time_input(timestamp), range)

\* The closure of filtered_logs for one entry, given by its two fields
Visible(app, timestamp, content, now) ==
    /\ matches_filter(app, content)
    /\ matches_search(app, timestamp, content)
    /\ matches_time(app, timestamp, now)

VARIABLES
    logs,               \* LogsApp.logs: Vec<LogEntry>
    is_loading,         \* LogsApp.is_loading
    log_receiver,       \* LogsApp.log_receiver: NoId or the channel's id
    log_thread_handle,  \* LogsApp.log_thread_handle: NoId or the worker's id
    log_command,        \* LogsApp.settings.log_command
    channels,           \* mpsc channels ever created: queue, receiver/sender alive
    workers,            \* worker threads ever spawned: pc, command, channel, held line
    ui_pc,              \* the consumer: "idle" between operations, "recv" in update's try_recv loop
    new_logs,           \* update's local new_logs
    appended,           \* history: lines passed to add_log_entry since the last clear()/restart()
    delivered,          \* history: per worker, the lines of its channel passed to add_log_entry
    sent,               \* history: per worker, the lines its send() calls put into the channel
    lastOp,             \* history: the controller operation that returned in the last step,
                        \* "read_err" after a read that failed, else "other"
    clock,              \* the wall clock: Instants[clock] is what Local::now() returns
    selected_log_levels,  \* LogsApp.selected_log_levels: HashSet<String>
    filter_mode,        \* LogsApp.filter_mode
    search_text,        \* LogsApp.search_text
    current_level_filter, \* LogsApp.current_level_filter: the level selector's text
    time_span_mode,     \* LogsApp.time_span_mode
    custom_from,        \* LogsApp.custom_from_{year,month,day,hour,minute}
    custom_to,          \* LogsApp.custom_to_{year,month,day,hour,minute}
    relative_amount,    \* LogsApp.relative_amount
    relative_unit,      \* LogsApp.relative_unit
    shown,              \* update's local filtered_logs: the entries of the last
                        \* filtered_logs() call, as positions in logs
    now_reads           \* history: per entry, the clock when that call tested it

\* The filter fields of LogsApp, the clock and the last query.
query == << clock, selected_log_levels, filter_mode, search_text, current_level_filter,
            time_span_mode, custom_from, custom_to, relative_amount, relative_unit,
            shown, now_reads >>

vars == << logs, is_loading, log_receiver, log_thread_handle, log_command,
           channels, workers, ui_pc, new_logs, appended, delivered, sent, lastOp,
           clock, selected_log_levels, filter_mode, search_text, current_level_filter,
           time_span_mode, custom_from, custom_to, relative_amount, relative_unit,
           shown, now_reads >>

\* ------------------------------------------------------------------ helpers
\* A line of a child's output: the n-th line read by worker w. Worker 0 is
\* no worker: a line handed to add_log_entry directly.
Line(w, n) == [w |-> w, n |-> n]

\* A line given by its text, handed to add_log_entry directly.
TextLine(n, text) == [w |-> NoId, n |-> n, text |-> text]

\* The readings of the wall clock, in the order they are taken. Local::now()
\* has sub-second precision.
Instants ==
    << NaiveDateTime(2025, 9, 15, 13 * SecondsPerHour + 59 * SecondsPerMinute + 30, 0),
       NaiveDateTime(2025, 9, 15, 14 * SecondsPerHour + 29 * SecondsPerMinute + 30, 0),
       NaiveDateTime(2025, 9, 15, 14 * SecondsPerHour + 29 * SecondsPerMinute + 30, 250000000) >>

\* The lines a child writes in the specifications of entries and queries: one
\* for each shape of the cascade, lines where a pattern matches text that its
\* format rejects, and lines with a level and no timestamp.
SampleLine ==
    [ iso_z       |-> << "2", "0", "2", "5", "-", "0", "9", "-", "1", "5", "T", "1", "4", ":", "3", "0", ":", "0", "0", "Z", " ", "u", "p" >>,
      iso_bare    |-> << "2", "0", "2", "5", "-", "0", "9", "-", "1", "5", "T", "1", "4", ":", "3", "0", ":", "0", "0", " ", "1", "7", "2", "6", "4", "0", "1", "0", "0", "0" >>,
      spaced_ms   |-> << "2", "0", "2", "5", "-", "0", "9", "-", "1", "5", " ", "1", "4", ":", "3", "0", ":", "0", "0", ".", "1", "2", "3", " ", "u", "p" >>,
      spaced      |-> << "2", "0", "2", "5", "-", "0", "9", "-", "1", "5", " ", "1", "4", ":", "3", "0", ":", "0", "0", " ", "E", "R", "R", "O", "R", " ", "x" >>,
      syslog      |-> << "S", "e", "p", " ", " ", "5", " ", "1", "4", ":", "3", "0", ":", "0", "0", " ", "h", "o", "s", "t", " ", "u", "p" >>,
      time_ms     |-> << "1", "4", ":", "3", "0", ":", "0", "0", ".", "1", "2", "3", " ", "u", "p" >>,
      slash       |-> << "0", "9", "/", "1", "5", "/", "2", "0", "2", "5", " ", "1", "4", ":", "3", "0", ":", "0", "0", " ", "u", "p" >>,
      epoch       |-> << "1", "7", "2", "6", "4", "0", "1", "0", "0", "0", " ", "u", "p" >>,
      plain       |-> << "E", "R", "R", "O", "R", " ", "d", "i", "s", "k", " ", "f", "u", "l", "l" >>,
      bad_month   |-> << "2", "0", "2", "5", "-", "1", "3", "-", "4", "5", " ", "1", "4", ":", "3", "0", ":", "0", "0", " ", "u", "p" >>,
      two_stamps  |-> << "S", "e", "p", " ", "5", " ", "1", "4", ":", "3", "0", ":", "0", "0", " ", "a", "t", " ", "2", "0", "2", "5", "-", "0", "9", "-", "1", "5", " ", "1", "0", ":", "0", "0", ":", "0", "0" >>,
      bad_syslog  |-> << "X", "y", "z", " ", "5", " ", "1", "4", ":", "3", "0", ":", "0", "0", " ", "1", "7", "2", "6", "4", "0", "1", "0", "0", "0" >>,
      leap_second |-> << "2", "0", "2", "5", "-", "0", "6", "-", "3", "0", " ", "2", "3", ":", "5", "9", ":", "6", "0", " ", "u", "p" >>,
      info        |-> << "I", "N", "F", "O", " ", "o", "k" >>,
      old         |-> << "2", "0", "2", "5", "-", "0", "9", "-", "1", "5", " ", "1", "2", ":", "2", "9", ":", "3", "0", " ", "W", "a", "r", "n", " ", "d", "i", "s", "k" >>,
      stale       |-> << "2", "0", "2", "5", "-", "0", "9", "-", "1", "4", " ", "1", "2", ":", "2", "9", ":", "3", "0", " ", "W", "a", "r", "n", " ", "d", "i", "s", "k" >> ]
SampleLines == { SampleLine[name] : name \in DOMAIN SampleLine }

\* let (extracted_timestamp, cleaned_content) =
\*     Self::extract_timestamp_from_log(&content);
\* in add_log_entry, for each of these lines and each reading of the clock.
Extraction ==
    [ text \in SampleLines, at \in DOMAIN Instants |->
          extract_timestamp_from_log(text, Instants[at]) ]

\* LogEntry as add_log_entry builds it from a raw line when the clock reads
\* Instants[at]: the line and the reading are kept, and the two fields of the
\* struct are what add_log_entry computes from them.
LogEntry(content, at) == [line |-> content, at |-> at]

\* LogEntry { timestamp, content } given by its two fields.
StoredEntry(timestamp, content) == [timestamp |-> timestamp, content |-> content]
IsStored(entry) == "timestamp" \in DOMAIN entry

Timestamp_blank_fallback(entry) ==
    IF IsStored(entry) THEN entry.timestamp
    ELSE LET extracted == Extraction[entry.line.text, entry.at]
         IN  IF extracted.timestamp = None
             THEN << >>
             ELSE Unwrap(extracted.timestamp)
Timestamp(entry) ==
    IF IsStored(entry) THEN entry.timestamp
    ELSE LET extracted == Extraction[entry.line.text, entry.at]
         IN  IF extracted.timestamp = None
             THEN FormatDateTime(Instants[entry.at])
             ELSE Unwrap(extracted.timestamp)
Content(entry) ==
    IF IsStored(entry) THEN entry.content
    ELSE Extraction[entry.line.text, entry.at].content

EntryLines(buf) == [i \in 1..Len(buf) |-> buf[i].line]

IsSuffix(s, t) ==
    /\ Len(s) <= Len(t)
    /\ s = SubSeq(t, Len(t) - Len(s) + 1, Len(t))

\* self.logs.drain(0..k): the first k elements are removed, the rest kept in order.
DrainFront_offbyone(v, k) == SubSeq(v, k + 2, Len(v))
DrainFront_newest(v, k) == SubSeq(v, 1, Len(v) - k)
DrainFront(v, k) == SubSeq(v, k + 1, Len(v))

\* LogsApp::add_log_entry on the fields it touches; calls records the call.
add_log_entry_keeps_loading(app, content, now) ==
    LET pushed == Append(app.logs, LogEntry(content, now))
    IN  [ logs       |-> IF Len(pushed) > LogCap
                         THEN DrainFront(pushed, EvictCount)
                         ELSE pushed,
          is_loading |-> app.is_loading,
          calls      |-> Append(app.calls, content) ]
add_log_entry_noevict(app, content, now) ==
    [ logs       |-> Append(app.logs, LogEntry(content, now)),
      is_loading |-> FALSE,
      calls      |-> Append(app.calls, content) ]
add_log_entry(app, content, now) ==
    LET pushed == Append(app.logs, LogEntry(content, now))
    IN  [ logs       |-> IF Len(pushed) > LogCap
                         THEN DrainFront(pushed, EvictCount)
                         ELSE pushed,
          is_loading |-> FALSE,
          calls      |-> Append(app.calls, content) ]

\* for log_line in new_logs { self.add_log_entry(log_line); }
RECURSIVE AddAll(_, _, _)
AddAll(app, lines, now) ==
    IF lines = << >> THEN app
    ELSE AddAll(add_log_entry(app, Head(lines), now), Tail(lines), now)

\* The buffer fields before a run of add_log_entry calls.
Buffer == [ logs |-> logs, is_loading |-> is_loading, calls |-> << >> ]

\* --------------------------------------------------------------------- Init
\* The level tokens LogsApp::default() inserts into selected_log_levels.
DefaultLevels ==
    { << "t", "r", "a", "c", "e" >>, << "d", "e", "b", "u", "g" >>,
      << "i", "n", "f", "o" >>, << "w", "a", "r", "n" >>,
      << "w", "a", "r", "n", "i", "n", "g" >>, << "e", "r", "r", "o", "r" >>,
      << "e", "r", "r" >>, << "f", "a", "t", "a", "l" >>,
      << "c", "r", "i", "t", "i", "c", "a", "l" >>, << "c", "r", "i", "t" >> }

\* The filter fields as LogsApp::default() sets them; now is read once there.
DefaultQuery ==
    LET now == Instants[1]
    IN  /\ clock = 1
        /\ selected_log_levels = DefaultLevels
        /\ filter_mode = "IncludeSelected"
        /\ search_text = << >>
        /\ current_level_filter = "All Levels"
        /\ time_span_mode = Disabled
        /\ custom_from = [ year |-> now.year, month |-> now.month, day |-> now.day,
                           hour |-> 0, minute |-> 0 ]
        /\ custom_to = [ year |-> now.year, month |-> now.month, day |-> now.day,
                         hour |-> 23, minute |-> 59 ]
        /\ relative_amount = 1
        /\ relative_unit = "Hours"
        /\ shown = << >>
        /\ now_reads = << >>

\* LogsApp::default()
Init ==
    /\ logs = << >>
    /\ is_loading = FALSE
    /\ log_receiver = NoId
    /\ log_thread_handle = NoId
    /\ log_command = DefaultCommand
    /\ channels = << >>
    /\ workers = << >>
    /\ ui_pc = "idle"
    /\ new_logs = << >>
    /\ appended = << >>
    /\ delivered = << >>
    /\ sent = << >>
    /\ lastOp = "init"
    /\ DefaultQuery

\* ---------------------------------------------- controller (LogsApp methods)
\* The fields of LogsApp the controller methods read and write, as one value.
AppState ==
    [ logs              |-> logs,
      is_loading        |-> is_loading,
      log_receiver      |-> log_receiver,
      log_thread_handle |-> log_thread_handle,
      log_command       |-> log_command,
      channels          |-> channels,
      workers           |-> workers ]

\* mpsc::channel(): an empty unbounded queue, Receiver and Sender both alive.
NewChannel == [ queue |-> << >>, rx |-> TRUE, tx |-> TRUE ]

\* thread::spawn(move || ...) with the cloned command and the Sender tx: the
\* closure has not run yet.
NewWorker(command, chan) ==
    [ pc |-> "spawned", command |-> command, chan |-> chan, held |-> << >>, nread |-> 0,
      stderr |-> 0 ]

\* Drop of an Option<Receiver>: the channel is disconnected and what is still
\* queued in it is never received.
DropReceiver_leaked(chs, r) == chs
DropReceiver(chs, r) ==
    IF r = NoId THEN chs
    ELSE [chs EXCEPT ![r] = [@ EXCEPT !.rx = FALSE, !.queue = << >>]]

\* LogsApp::start_log_collection
start_log_collection_unguarded(s) ==
    LET chs  == DropReceiver(s.channels, s.log_receiver)
        rx   == Len(chs) + 1
        h    == Len(s.workers) + 1
    IN  [s EXCEPT !.channels          = Append(chs, NewChannel),
                  !.log_receiver      = rx,
                  !.is_loading        = TRUE,
                  !.workers           = Append(s.workers, NewWorker(s.log_command, rx)),
                  !.log_thread_handle = h]
start_log_collection_respawns(s) ==
    IF s.log_thread_handle # NoId /\ s.workers[s.log_thread_handle].pc # "done"
    THEN s
    ELSE LET chs  == DropReceiver(s.channels, s.log_receiver)
             rx   == Len(chs) + 1
             h    == Len(s.workers) + 1
         IN  [s EXCEPT !.channels          = Append(chs, NewChannel),
                       !.log_receiver      = rx,
                       !.is_loading        = TRUE,
                       !.workers           = Append(s.workers, NewWorker(s.log_command, rx)),
                       !.log_thread_handle = h]
start_log_collection(s) ==
    IF s.log_thread_handle # NoId
    THEN s
    ELSE LET chs  == DropReceiver(s.channels, s.log_receiver)
             rx   == Len(chs) + 1
             h    == Len(s.workers) + 1
         IN  [s EXCEPT !.channels          = Append(chs, NewChannel),
                       !.log_receiver      = rx,
                       !.is_loading        = TRUE,
                       !.workers           = Append(s.workers, NewWorker(s.log_command, rx)),
                       !.log_thread_handle = h]

\* LogsApp::stop_log_collection
stop_log_collection_keeps_handle(s) ==
    [s EXCEPT !.channels          = DropReceiver(s.channels, s.log_receiver),
              !.log_receiver      = NoId]
stop_log_collection(s) ==
    [s EXCEPT !.channels          = DropReceiver(s.channels, s.log_receiver),
              !.log_receiver      = NoId,
              !.log_thread_handle = NoId]

\* LogsApp::restart_log_collection
restart_log_collection_noclear(s) ==
    start_log_collection([stop_log_collection(s) EXCEPT !.is_loading = FALSE])
restart_log_collection_stop_start(s) ==
    start_log_collection(stop_log_collection(s))
restart_log_collection(s) ==
    LET stopped == stop_log_collection(s)
        cleared == [stopped EXCEPT !.logs = << >>, !.is_loading = FALSE]
    IN  start_log_collection(cleared)

\* A history sequence indexed by worker, extended for workers just spawned.
RECURSIVE Grow(_, _)
Grow(h, n) == IF Len(h) >= n THEN h ELSE Grow(Append(h, << >>), n)

\* The step writes the controller's fields from s and extends the histories.
Commit(s, op) ==
    /\ logs' = s.logs
    /\ is_loading' = s.is_loading
    /\ log_receiver' = s.log_receiver
    /\ log_thread_handle' = s.log_thread_handle
    /\ log_command' = s.log_command
    /\ channels' = s.channels
    /\ workers' = s.workers
    /\ sent' = Grow(sent, Len(s.workers))
    /\ delivered' = Grow(delivered, Len(s.workers))
    /\ lastOp' = op
    /\ UNCHANGED query

\* ------------------------------------------------------ consumer operations
\* start(): called by main() after construction, and as an operation of its own.
Start ==
    /\ ui_pc = "idle"
    /\ log_thread_handle # NoId \/ Len(workers) < MaxCollections
    /\ Commit(start_log_collection(AppState), "start")
    /\ UNCHANGED << ui_pc, new_logs, appended >>

\* stop(): as an operation of its own (the program calls it from restart).
Stop_joins ==
    /\ ui_pc = "idle"
    /\ log_thread_handle # NoId => workers[log_thread_handle].pc = "done"
    /\ Commit(stop_log_collection(AppState), "stop")
    /\ UNCHANGED << ui_pc, new_logs, appended >>
Stop ==
    /\ ui_pc = "idle"
    /\ Commit(stop_log_collection(AppState), "stop")
    /\ UNCHANGED << ui_pc, new_logs, appended >>

\* "Restart Collection", "Apply", apply_settings
Restart ==
    /\ ui_pc = "idle"
    /\ Len(workers) < MaxCollections
    /\ Commit(restart_log_collection(AppState), "restart")
    /\ appended' = << >>
    /\ UNCHANGED << ui_pc, new_logs >>

\* The command text field edited (no restart until "Apply").
EditCommand ==
    /\ ui_pc = "idle"
    /\ \E command \in Commands \ {log_command} : log_command' = command
    /\ lastOp' = "other"
    /\ UNCHANGED << logs, is_loading, log_receiver, log_thread_handle,
                    channels, workers, ui_pc, new_logs, appended, delivered, sent >>
    /\ UNCHANGED query

\* What try_recv() can still return: nothing without a receiver
\* (if let Some(receiver) = &self.log_receiver), else the channel's queue.
Pending == IF log_receiver = NoId THEN << >> ELSE channels[log_receiver].queue

\* update(): receiver.try_recv() returned Ok(log_line)
DrainRecv_newest_first ==
    /\ Pending # << >>
    /\ new_logs' = Append(new_logs, Pending[Len(Pending)])
    /\ channels' = [channels EXCEPT ![log_receiver].queue = SubSeq(@, 1, Len(@) - 1)]
    /\ ui_pc' = "recv"
    /\ lastOp' = "other"
    /\ UNCHANGED << logs, is_loading, log_receiver, log_thread_handle, log_command,
                    workers, appended, delivered, sent >>
    /\ UNCHANGED query
DrainRecv ==
    /\ Pending # << >>
    /\ new_logs' = Append(new_logs, Head(Pending))
    /\ channels' = [channels EXCEPT ![log_receiver].queue = Tail(@)]
    /\ ui_pc' = "recv"
    /\ lastOp' = "other"
    /\ UNCHANGED << logs, is_loading, log_receiver, log_thread_handle, log_command,
                    workers, appended, delivered, sent >>
    /\ UNCHANGED query

\* update(): no receiver, or try_recv() returned Err (Empty or Disconnected): the
\* loop ends and every line of new_logs goes through add_log_entry.
DrainDone_blocking_recv ==
    /\ Pending = << >>
    /\ log_receiver = NoId \/ ~channels[log_receiver].tx
    /\ LET app == AddAll(Buffer, new_logs, clock)
       IN  /\ logs' = app.logs
           /\ is_loading' = app.is_loading
           /\ appended' = appended \o app.calls
           /\ delivered' = [w \in DOMAIN delivered |->
                               delivered[w] \o SelectSeq(app.calls, LAMBDA l : l.w = w)]
    /\ new_logs' = << >>
    /\ ui_pc' = "idle"
    /\ lastOp' = "drain"
    /\ UNCHANGED << log_receiver, log_thread_handle, log_command, channels, workers, sent >>
    /\ UNCHANGED query
DrainDone ==
    /\ Pending = << >>
    /\ LET app == AddAll(Buffer, new_logs, clock)
       IN  /\ logs' = app.logs
           /\ is_loading' = app.is_loading
           /\ appended' = appended \o app.calls
           /\ delivered' = [w \in DOMAIN delivered |->
                               delivered[w] \o SelectSeq(app.calls, LAMBDA l : l.w = w)]
    /\ new_logs' = << >>
    /\ ui_pc' = "idle"
    /\ lastOp' = "drain"
    /\ UNCHANGED << log_receiver, log_thread_handle, log_command, channels, workers, sent >>
    /\ UNCHANGED query


\* "Clear Logs" button: self.logs.clear()
Clear ==
    /\ ui_pc = "idle"
    /\ logs' = << >>
    /\ appended' = << >>
    /\ lastOp' = "clear"
    /\ UNCHANGED << is_loading, log_receiver, log_thread_handle, log_command,
                    channels, workers, ui_pc, new_logs, delivered, sent >>
    /\ UNCHANGED query

\* A direct call of add_log_entry with a fresh line.
AppendEntry ==
    /\ ui_pc = "idle"
    /\ Len(appended) < MaxAppends
    /\ LET app == add_log_entry(Buffer, Line(0, Len(appended) + 1), clock)
       IN  /\ logs' = app.logs
           /\ is_loading' = app.is_loading
           /\ appended' = appended \o app.calls
    /\ lastOp' = "append"
    /\ UNCHANGED << log_receiver, log_thread_handle, log_command,
                    channels, workers, ui_pc, new_logs, delivered, sent >>
    /\ UNCHANGED query

\* ------------------------------------------------------------ worker thread
\* The step changes worker w (and possibly its channel) and nothing of the consumer.
WorkerEvent(event) ==
    /\ lastOp' = event
    /\ UNCHANGED << logs, is_loading, log_receiver, log_thread_handle, log_command,
                    ui_pc, new_logs, appended, delivered >>
    /\ UNCHANGED query
WorkerFrame == WorkerEvent("other")

\* The closure returns: the thread ends; its Sender tx and its captured
\* command string are dropped.
ThreadEnd(w) ==
    /\ workers' = [workers EXCEPT ![w].pc = "done", ![w].held = << >>, ![w].command = << >>]
    /\ channels' = [channels EXCEPT ![workers[w].chan].tx = FALSE]

\* command.split_whitespace() yields no token: return.
WorkerEmptyCommand(w) ==
    /\ workers[w].pc = "spawned"
    /\ split_whitespace(workers[w].command) = << >>
    /\ ThreadEnd(w)
    /\ UNCHANGED sent
    /\ WorkerFrame

\* cmd.spawn() is Err (no such program, no permission): the if-let body is
\* skipped and the closure returns.
WorkerSpawnFail_reports(w) ==
    /\ workers[w].pc = "spawned"
    /\ split_whitespace(workers[w].command) # << >>
    /\ workers' = [workers EXCEPT ![w].pc = "done", ![w].command = << >>]
    /\ LET c == workers[w].chan
           line == Line(w, 0)
       IN  /\ channels' = [channels EXCEPT ![c].tx = FALSE,
                                           ![c].queue = IF channels[c].rx THEN Append(@, line) ELSE @]
           /\ sent' = [sent EXCEPT ![w] = Append(@, line)]
    /\ WorkerFrame
WorkerSpawnFail(w) ==
    /\ workers[w].pc = "spawned"
    /\ split_whitespace(workers[w].command) # << >>
    /\ ThreadEnd(w)
    /\ UNCHANGED sent
    /\ WorkerFrame

\* cmd.spawn() is Ok(child): the worker enters the read loop over the child's
\* stdout (child.stdout.take() is Some, stdout being piped). The command
\* string is not read again.
WorkerSpawnOk(w) ==
    /\ workers[w].pc = "spawned"
    /\ split_whitespace(workers[w].command) # << >>
    /\ workers' = [workers EXCEPT ![w].pc = "reading", ![w].command = << >>]
    /\ UNCHANGED << channels, sent >>
    /\ WorkerFrame

\* Lines read so far by all workers.
RECURSIVE SumRead(_, _)
SumRead(ws, k) == IF k = 0 THEN 0 ELSE ws[k].nread + SumRead(ws, k - 1)
LinesRead == SumRead(workers, Len(workers))

\* reader.lines() yields Ok(line_content): the child wrote one more line.
WorkerReadLine(w) ==
    /\ workers[w].pc = "reading"
    /\ LinesRead < MaxLines
    /\ workers' = [workers EXCEPT ![w].pc = "sending",
                                  ![w].nread = @ + 1,
                                  ![w].held = << Line(w, workers[w].nread + 1) >>]
    /\ UNCHANGED << channels, sent >>
    /\ WorkerFrame

\* reader.lines() ends: end-of-file on the child's stdout.
WorkerReadEof(w) ==
    /\ workers[w].pc = "reading"
    /\ workers' = [workers EXCEPT ![w].pc = "waiting"]
    /\ UNCHANGED << channels, sent >>
    /\ WorkerFrame

\* reader.lines() yields Err(_) (bytes that are not UTF-8, or a failed read): break.
WorkerReadErr(w) ==
    /\ workers[w].pc = "reading"
    /\ workers' = [workers EXCEPT ![w].pc = "waiting"]
    /\ UNCHANGED << channels, sent >>
    /\ WorkerEvent("read_err")

\* tx.send(line_content): Ok while the Receiver is alive, the line is queued and
\* the loop goes on; Err once the Receiver is dropped, break.
WorkerSend_ignores_error(w) ==
    /\ workers[w].pc = "sending"
    /\ LET c == workers[w].chan
           line == workers[w].held[1]
       IN  IF channels[c].rx
           THEN /\ channels' = [channels EXCEPT ![c].queue = Append(@, line)]
                /\ sent' = [sent EXCEPT ![w] = Append(@, line)]
                /\ workers' = [workers EXCEPT ![w].pc = "reading", ![w].held = << >>]
           ELSE /\ workers' = [workers EXCEPT ![w].pc = "reading", ![w].held = << >>]
                /\ UNCHANGED << channels, sent >>
    /\ WorkerFrame
WorkerSend_retries(w) ==
    /\ workers[w].pc = "sending"
    /\ LET c == workers[w].chan
           line == workers[w].held[1]
       IN  IF channels[c].rx
           THEN /\ channels' = [channels EXCEPT ![c].queue = Append(@, line)]
                /\ sent' = [sent EXCEPT ![w] = Append(@, line)]
                /\ workers' = [workers EXCEPT ![w].pc = "reading", ![w].held = << >>]
           ELSE UNCHANGED << workers, channels, sent >>
    /\ WorkerFrame
WorkerSend(w) ==
    /\ workers[w].pc = "sending"
    /\ LET c == workers[w].chan
           line == workers[w].held[1]
       IN  IF channels[c].rx
           THEN /\ channels' = [channels EXCEPT ![c].queue = Append(@, line)]
                /\ sent' = [sent EXCEPT ![w] = Append(@, line)]
                /\ workers' = [workers EXCEPT ![w].pc = "reading", ![w].held = << >>]
           ELSE /\ workers' = [workers EXCEPT ![w].pc = "waiting", ![w].held = << >>]
                /\ UNCHANGED << channels, sent >>
    /\ WorkerFrame

\* child.wait() returns: the child has exited and is reaped; the closure returns.
WorkerReap(w) ==
    /\ workers[w].pc = "waiting"
    /\ ThreadEnd(w)
    /\ UNCHANGED sent
    /\ WorkerFrame

\* ------------------------------------------------------------ specifications
Next ==
    \/ Start
    \/ Stop
    \/ Restart
    \/ EditCommand
    \/ Clear
    \/ DrainRecv
    \/ DrainDone
    \/ \E w \in DOMAIN workers : WorkerEmptyCommand(w)
    \/ \E w \in DOMAIN workers : WorkerSpawnFail(w)
    \/ \E w \in DOMAIN workers : WorkerSpawnOk(w)
    \/ \E w \in DOMAIN workers : WorkerReadLine(w)
    \/ \E w \in DOMAIN workers : WorkerReadEof(w)
    \/ \E w \in DOMAIN workers : WorkerReadErr(w)
    \/ \E w \in DOMAIN workers : WorkerSend(w)
    \/ \E w \in DOMAIN workers : WorkerReap(w)

Spec == Init /\ [][Next]_vars

\* update() runs on every UI tick: a drain that can take its next step takes it.
LiveSpec == Spec /\ WF_vars(DrainRecv) /\ WF_vars(DrainDone)

\* The steps of the closure that wait for nothing but the scheduler: the
\* tokenising, cmd.spawn() returning, and tx.send (the channel is unbounded).
\* reader.lines() and child.wait() return when the child writes, closes its
\* output or exits, which no scheduling of the thread brings about.
WorkerRuns(w) ==
    /\ w \in DOMAIN workers
    /\ \/ WorkerEmptyCommand(w)
       \/ WorkerSpawnFail(w)
       \/ WorkerSpawnOk(w)
       \/ WorkerSend(w)

\* Collections started, stopped and replaced while their workers run; update()
\* does not run, so what is sent stays queued.
TeardownNext ==
    \/ Start
    \/ Stop
    \/ Restart
    \/ EditCommand
    \/ \E w \in DOMAIN workers : WorkerEmptyCommand(w)
    \/ \E w \in DOMAIN workers : WorkerSpawnFail(w)
    \/ \E w \in DOMAIN workers : WorkerSpawnOk(w)
    \/ \E w \in DOMAIN workers : WorkerReadLine(w)
    \/ \E w \in DOMAIN workers : WorkerReadEof(w)
    \/ \E w \in DOMAIN workers : WorkerReadErr(w)
    \/ \E w \in DOMAIN workers : WorkerSend(w)
    \/ \E w \in DOMAIN workers : WorkerReap(w)

\* Every worker thread is scheduled fairly; the children are left free.
WorkerSpec ==
    Init /\ [][TeardownNext]_vars /\ \A w \in 1..MaxCollections : WF_vars(WorkerRuns(w))

\* ------------------------------------------------ a child that never stops
\* A child that writes without end (yes, journalctl -f on a busy host). The
\* behaviours of interest are infinite and the Vec new_logs grows along them,
\* so the lines are not told apart, and new_logs and the history of what was
\* sent are followed up to their last MaxLines elements: neither loop reads
\* them. The child is followed while the buffer holds fewer than MaxLines
\* entries and the queue fewer than MaxLines lines.
Recent(q) ==
    IF Len(q) <= MaxLines THEN q ELSE SubSeq(q, Len(q) - MaxLines + 1, Len(q))

\* reader.lines() yields Ok(line_content) once more.
FloodRead(w) ==
    /\ workers[w].pc = "reading"
    /\ Len(logs) < MaxLines
    /\ workers' = [workers EXCEPT ![w].pc = "sending",
                                  ![w].nread = 1,
                                  ![w].held = << Line(w, 1) >>]
    /\ UNCHANGED << channels, sent >>
    /\ WorkerFrame

\* tx.send(line_content), as WorkerSend.
FloodSend(w) ==
    /\ workers[w].pc = "sending"
    /\ LET c == workers[w].chan
           line == workers[w].held[1]
       IN  IF channels[c].rx
           THEN /\ Len(channels[c].queue) < MaxLines
                /\ channels' = [channels EXCEPT ![c].queue = Append(@, line)]
                /\ sent' = [sent EXCEPT ![w] = Recent(Append(@, line))]
                /\ workers' = [workers EXCEPT ![w].pc = "reading", ![w].held = << >>]
           ELSE /\ workers' = [workers EXCEPT ![w].pc = "waiting", ![w].held = << >>]
                /\ UNCHANGED << channels, sent >>
    /\ WorkerFrame

\* receiver.try_recv() returned Ok(log_line), as DrainRecv.
FloodRecv ==
    /\ Pending # << >>
    /\ new_logs' = Recent(Append(new_logs, Head(Pending)))
    /\ channels' = [channels EXCEPT ![log_receiver].queue = Tail(@)]
    /\ ui_pc' = "recv"
    /\ lastOp' = "other"
    /\ UNCHANGED << logs, is_loading, log_receiver, log_thread_handle, log_command,
                    workers, appended, delivered, sent >>
    /\ UNCHANGED query

FloodNext ==
    \/ Start
    \/ Stop
    \/ Restart
    \/ FloodRecv
    \/ DrainDone
    \/ \E w \in DOMAIN workers : WorkerSpawnOk(w)
    \/ \E w \in DOMAIN workers : FloodRead(w)
    \/ \E w \in DOMAIN workers : FloodSend(w)
    \/ \E w \in DOMAIN workers : WorkerReap(w)

\* The thread of update() and the worker threads are scheduled fairly: the
\* receive loop takes its next step, whichever way try_recv() turns out.
FloodSpec ==
    /\ Init
    /\ [][FloodNext]_vars
    /\ WF_vars(FloodRecv \/ DrainDone)
    /\ \A w \in 1..MaxCollections :
          WF_vars(w \in DOMAIN workers /\ (WorkerSpawnOk(w) \/ FloodSend(w)))

\* ------------------------------------------------ the child's standard error
\* cmd.stderr(Stdio::piped()): the child's standard error is a pipe whose read
\* end is child.stderr, which the closure never takes or reads. The field
\* stderr of a worker counts the chunks the child has written to it; a write
\* to the full pipe does not return, and the count is then PipeCap + 1.
ChildBlocked(w) == workers[w].stderr > PipeCap

\* The child, spawned and not blocked, writes a chunk to its standard error.
ChildWritesStderr(w) ==
    /\ workers[w].pc \in {"reading", "sending"}
    /\ ~ChildBlocked(w)
    /\ workers' = [workers EXCEPT ![w].stderr = @ + 1]
    /\ UNCHANGED << channels, sent >>
    /\ WorkerFrame

\* WorkerReadLine, WorkerReadEof and WorkerReap for a child that can block:
\* the child writes a line, closes its output or exits only when it is not
\* blocked in a write to its standard error.
PipeReadLine(w) == ~ChildBlocked(w) /\ WorkerReadLine(w)
PipeReadEof(w) == ~ChildBlocked(w) /\ WorkerReadEof(w)
PipeReap(w) == ~ChildBlocked(w) /\ WorkerReap(w)

PipeNext ==
    \/ Start
    \/ DrainRecv
    \/ DrainDone
    \/ \E w \in DOMAIN workers : WorkerSpawnOk(w)
    \/ \E w \in DOMAIN workers : ChildWritesStderr(w)
    \/ \E w \in DOMAIN workers : PipeReadLine(w)
    \/ \E w \in DOMAIN workers : PipeReadEof(w)
    \/ \E w \in DOMAIN workers : WorkerSend(w)
    \/ \E w \in DOMAIN workers : PipeReap(w)

\* update() runs on every tick, the worker is scheduled fairly, and a child
\* that is not blocked goes on to write its next line or to close its output.
PipeSpec ==
    /\ Init
    /\ [][PipeNext]_vars
    /\ WF_vars(DrainRecv)
    /\ WF_vars(DrainDone)
    /\ \A w \in 1..MaxCollections :
          /\ WF_vars(WorkerRuns(w))
          /\ WF_vars(w \in DOMAIN workers /\ (PipeReadLine(w) \/ PipeReadEof(w)))

\* ------------------------------------------------------------- buffer alone
\* add_log_entry called for the lines lo..hi in turn.
RECURSIVE AppendRange(_, _, _, _)
AppendRange(app, lo, hi, now) ==
    IF lo > hi THEN app
    ELSE IF lo = hi THEN add_log_entry(app, Line(0, lo), now)
    ELSE LET mid  == (lo + hi) \div 2
             left == AppendRange(app, lo, mid, now)
         IN  \* the first half is evaluated (its calls are looked at) before the
             \* second half starts, which keeps the evaluation shallow
             IF left.calls = << >> THEN left ELSE AppendRange(left, mid + 1, hi, now)

\* Numbers of appends already made when the exploration starts: none, one short
\* of the cap, and one short of the cap after the first eviction.
Prefill == { 0, LogCap - 1, LogCap + EvictCount - 1 }

\* LogsApp::default() followed by n calls of add_log_entry. BufSpec reaches each
\* of these states from n = 0 as well; starting there keeps the runs to them short.
BufInit ==
    \E n \in Prefill :
        LET app == AppendRange([logs |-> << >>, is_loading |-> FALSE, calls |-> << >>], 1, n, 1)
        IN  /\ logs = app.logs
            /\ is_loading = app.is_loading
            /\ appended = app.calls
            /\ lastOp = IF n = 0 THEN "init" ELSE "append"
            /\ log_receiver = NoId
            /\ log_thread_handle = NoId
            /\ log_command = DefaultCommand
            /\ channels = << >>
            /\ workers = << >>
            /\ ui_pc = "idle"
            /\ new_logs = << >>
            /\ delivered = << >>
            /\ sent = << >>
            /\ DefaultQuery

\* Direct appends, clear and restart; no worker is scheduled.
BufNext == AppendEntry \/ Clear \/ Restart

BufSpec == BufInit /\ [][BufNext]_vars

\* ------------------------------------------------------ entries and queries
\* Bounds of the specifications below: the lines appended and the inputs the
\* widgets are given.
MaxEntries == 2

\* The controller's fields and histories, which a widget leaves alone.
controller == << logs, is_loading, log_receiver, log_thread_handle, log_command,
                 channels, workers, ui_pc, new_logs, appended, delivered, sent >>
level_fields == << selected_log_levels, filter_mode, search_text, current_level_filter >>
time_fields == << time_span_mode, custom_from, custom_to, relative_amount, relative_unit >>

\* The frame of update() ends: its local filtered_logs is dropped.
EndFrame == shown' = << >> /\ now_reads' = << >>

\* A direct call of add_log_entry with the n-th line, of the given text.
AppendLine(text) ==
    /\ ui_pc = "idle"
    /\ Len(appended) < MaxEntries
    /\ LET app == add_log_entry(Buffer, TextLine(Len(appended) + 1, text), clock)
       IN  /\ logs' = app.logs
           /\ is_loading' = app.is_loading
           /\ appended' = appended \o app.calls
    /\ lastOp' = "append"
    /\ EndFrame
    /\ UNCHANGED << log_receiver, log_thread_handle, log_command,
                    channels, workers, ui_pc, new_logs, delivered, sent >>
    /\ UNCHANGED << clock, level_fields, time_fields >>

\* Time passes: the next reading of the wall clock is a later one.
Tick ==
    /\ clock < Len(Instants)
    /\ clock' = clock + 1
    /\ lastOp' = "other"
    /\ EndFrame
    /\ UNCHANGED << controller, level_fields, time_fields >>

\* The options of the "Level" selector: (display_name, level_key).
AllLevels == << "A", "l", "l", " ", "L", "e", "v", "e", "l", "s" >>
Levels ==
    << [display_name |-> "All Levels", level_key |-> AllLevels ],
       [display_name |-> "TRACE", level_key |-> << "t", "r", "a", "c", "e" >> ],
       [display_name |-> "DEBUG", level_key |-> << "d", "e", "b", "u", "g" >> ],
       [display_name |-> "INFO", level_key |-> << "i", "n", "f", "o" >> ],
       [display_name |-> "WARN", level_key |-> << "w", "a", "r", "n" >> ],
       [display_name |-> "WARNING", level_key |-> << "w", "a", "r", "n", "i", "n", "g" >> ],
       [display_name |-> "ERROR", level_key |-> << "e", "r", "r", "o", "r" >> ],
       [display_name |-> "ERR", level_key |-> << "e", "r", "r" >> ],
       [display_name |-> "FATAL", level_key |-> << "f", "a", "t", "a", "l" >> ],
       [display_name |-> "CRITICAL", level_key |-> << "c", "r", "i", "t", "i", "c", "a", "l" >> ],
       [display_name |-> "CRIT", level_key |-> << "c", "r", "i", "t" >> ] >>

\* An option of the "Level" selector clicked.
SelectLevel(option) ==
    /\ ui_pc = "idle"
    /\ current_level_filter' = option.display_name
    /\ selected_log_levels' = IF option.level_key # AllLevels
                              THEN { option.level_key }
                              ELSE { }
    /\ lastOp' = "other"
    /\ EndFrame
    /\ UNCHANGED << controller, clock, filter_mode, search_text, time_fields >>

\* A "Mode" radio button clicked.
FilterModes == { "IncludeSelected", "ExcludeSelected" }
SetFilterMode(mode) ==
    /\ ui_pc = "idle"
    /\ filter_mode' = mode
    /\ lastOp' = "other"
    /\ EndFrame
    /\ UNCHANGED << controller, clock, selected_log_levels, search_text,
                    current_level_filter, time_fields >>

\* The "Search" text field edited.
EditSearch(text) ==
    /\ ui_pc = "idle"
    /\ search_text' = text
    /\ lastOp' = "other"
    /\ EndFrame
    /\ UNCHANGED << controller, clock, selected_log_levels, filter_mode,
                    current_level_filter, time_fields >>

\* The options of the "Time Span" selector, and one of them clicked.
TimeSpanModes ==
    { Disabled, Custom, Relative } \cup { Predefined(PredefinedSpans[i]) : i \in DOMAIN PredefinedSpans }
SelectTimeSpan(mode) ==
    /\ ui_pc = "idle"
    /\ time_span_mode' = mode
    /\ lastOp' = "other"
    /\ EndFrame
    /\ UNCHANGED << controller, clock, level_fields,
                    custom_from, custom_to, relative_amount, relative_unit >>

\* The ranges of the DragValues of the custom bounds.
CustomRange ==
    [ year |-> 2000..2100, month |-> 1..12, day |-> 1..31, hour |-> 0..23, minute |-> 0..59 ]

\* A DragValue of the "From:" row or of the "To:" row set to a value of its
\* range; the rows are there in Custom mode.
EditCustomFrom(field, value) ==
    /\ ui_pc = "idle"
    /\ time_span_mode = Custom
    /\ value \in CustomRange[field]
    /\ custom_from' = [custom_from EXCEPT ![field] = value]
    /\ lastOp' = "other"
    /\ EndFrame
    /\ UNCHANGED << controller, clock, level_fields,
                    time_span_mode, custom_to, relative_amount, relative_unit >>
EditCustomTo(field, value) ==
    /\ ui_pc = "idle"
    /\ time_span_mode = Custom
    /\ value \in CustomRange[field]
    /\ custom_to' = [custom_to EXCEPT ![field] = value]
    /\ lastOp' = "other"
    /\ EndFrame
    /\ UNCHANGED << controller, clock, level_fields,
                    time_span_mode, custom_from, relative_amount, relative_unit >>

\* The DragValue of the "Last" row set, and a unit picked; the row is there
\* in Relative mode.
RelativeRange == 1..999
EditRelativeAmount(amount) ==
    /\ ui_pc = "idle"
    /\ time_span_mode = Relative
    /\ amount \in RelativeRange
    /\ relative_amount' = amount
    /\ lastOp' = "other"
    /\ EndFrame
    /\ UNCHANGED << controller, clock, level_fields,
                    time_span_mode, custom_from, custom_to, relative_unit >>
SelectRelativeUnit(unit) ==
    /\ ui_pc = "idle"
    /\ time_span_mode = Relative
    /\ relative_unit' = unit
    /\ lastOp' = "other"
    /\ EndFrame
    /\ UNCHANGED << controller, clock, level_fields,
                    time_span_mode, custom_from, custom_to, relative_amount >>

\* The filter fields of LogsApp as one value.
FilterFields ==
    [ selected_log_levels |-> selected_log_levels,
      filter_mode         |-> filter_mode,
      search_text         |-> search_text,
      time_span_mode      |-> time_span_mode,
      custom_from         |-> custom_from,
      custom_to           |-> custom_to,
      relative_amount     |-> relative_amount,
      relative_unit       |-> relative_unit ]

\* LogsApp::filtered_logs: self.logs.iter().filter(..).collect(), the kept
\* entries as their positions in buf. The closure resolves the time range once
\* per entry; nows[i] is the clock it reads for the i-th.
RECURSIVE FilterFrom(_, _, _, _)
FilterFrom(i, app, buf, nows) ==
    IF i > Len(buf) THEN << >>
    ELSE LET keep == Visible(app, Timestamp(buf[i]), Content(buf[i]), Instants[nows[i]])
         IN  (IF keep THEN << i >> ELSE << >>) \o FilterFrom(i + 1, app, buf, nows)
filtered_logs(app, buf, nows) == FilterFrom(1, app, buf, nows)

\* The clock readings a call can make for n entries from the current instant
\* on: each no earlier than the one before. A mode with no range or with
\* Custom bounds does not read the clock.
ReadsClock(mode) == mode # Disabled /\ mode # Custom
NowReads(n) ==
    IF ReadsClock(time_span_mode)
    THEN { nows \in [1..n -> clock..Len(Instants)] :
               \A i \in 1..(n - 1) : nows[i] <= nows[i + 1] }
    ELSE { [i \in 1..n |-> clock] }

Render_retains ==
    /\ ui_pc = "idle"
    /\ ~is_loading
    /\ \E nows \in NowReads(Len(logs)) :
          /\ shown' = filtered_logs(FilterFields, logs, nows)
          /\ logs' = [i \in 1..Len(shown') |-> logs[shown'[i]]]
          /\ now_reads' = nows
          /\ clock' = IF nows = << >> THEN clock ELSE nows[Len(nows)]
    /\ lastOp' = "filter"
    /\ UNCHANGED << is_loading, log_receiver, log_thread_handle, log_command,
                    channels, workers, ui_pc, new_logs, appended, delivered, sent >>
    /\ UNCHANGED << level_fields, time_fields >>
\* update() shows the log list: let filtered_logs = self.filtered_logs();
Render ==
    /\ ui_pc = "idle"
    /\ ~is_loading
    /\ \E nows \in NowReads(Len(logs)) :
          /\ shown' = filtered_logs(FilterFields, logs, nows)
          /\ now_reads' = nows
          /\ clock' = IF nows = << >> THEN clock ELSE nows[Len(nows)]
    /\ lastOp' = "filter"
    /\ UNCHANGED << controller, level_fields, time_fields >>

\* ------------------------------------------------------------ entries alone
\* Direct appends, clear and the passing of time; no worker is scheduled.
EntryNext ==
    \/ \E text \in SampleLines : AppendLine(text)
    \/ Tick
    \/ Clear

EntrySpec == Init /\ [][EntryNext]_vars

\* -------------------------------------------------------- level and search
\* Inputs of FilterSpec: the lines appended (the third stamped the day before
\* the clock's), the options of the level selector clicked and the search
\* texts typed.
QueryLines == { SampleLine.plain, SampleLine.info, SampleLine.stale, SampleLine.iso_z }
LevelChoices == { Levels[1], Levels[4], Levels[7] }
SearchText ==
    [ none    |-> << >>,
      disk    |-> << "d", "i", "s", "k" >>,
      network |-> << "n", "e", "t", "w", "o", "r", "k" >>,
      upper   |-> << "W", "A", "R", "N" >>,
      clock   |-> << "1", "2", ":", "2", "9" >> ]
SearchTexts == { SearchText[name] : name \in DOMAIN SearchText }

\* Appends, the level, mode and search widgets, the time span switched between
\* Disabled and Custom (whose bounds LogsApp::default() sets to the day of the
\* clock), and the log list shown.
FilterNext ==
    \/ \E text \in QueryLines : AppendLine(text)
    \/ \E option \in LevelChoices : SelectLevel(option)
    \/ \E mode \in FilterModes : SetFilterMode(mode)
    \/ \E text \in SearchTexts : EditSearch(text)
    \/ \E mode \in { Disabled, Custom } : SelectTimeSpan(mode)
    \/ Render

FilterSpec == Init /\ [][FilterNext]_vars

\* ---------------------------------------------------------------- time spans
\* Inputs of TimeSpec and CustomSpec: a line stamped by the wall clock and a
\* line with a timestamp two hours before Instants[2]; the amounts typed into
\* the "Last" row; the fields of the custom bounds set.
TimedLines == { SampleLine.plain, SampleLine.old }
RelativeAmounts == { 1, 2 }
CustomFromEdits == { << "day", 31 >>, << "day", 15 >> }
CustomToEdits == { << "day", 31 >>, << "day", 15 >>, << "hour", 13 >>, << "hour", 23 >> }

\* Appends, the passing of time, the time span selector without its Custom
\* option, the "Last" row, and the log list shown.
TimeNext ==
    \/ \E text \in TimedLines : AppendLine(text)
    \/ Tick
    \/ \E mode \in TimeSpanModes \ { Custom } : SelectTimeSpan(mode)
    \/ \E amount \in RelativeAmounts : EditRelativeAmount(amount)
    \/ \E unit \in TimeUnits : SelectRelativeUnit(unit)
    \/ Render

TimeSpec == Init /\ [][TimeNext]_vars

\* Appends, the passing of time, the time span switched between Disabled and
\* Custom, the rows of the custom bounds, and the log list shown.
CustomNext ==
    \/ \E text \in TimedLines : AppendLine(text)
    \/ Tick
    \/ \E mode \in { Disabled, Custom } : SelectTimeSpan(mode)
    \/ \E edit \in CustomFromEdits : EditCustomFrom(edit[1], edit[2])
    \/ \E edit \in CustomToEdits : EditCustomTo(edit[1], edit[2])
    \/ Render

CustomSpec == Init /\ [][CustomNext]_vars

\* ------------------------------------------------- the time test as a function
\* filtered_logs tests the timestamp field of whatever self.logs holds. In
\* StoredSpec the buffer is an input: entries given by their fields, with
\* timestamps parse_time_input accepts and timestamps it rejects (the latter
\* are not among those add_log_entry stores).
StoredTimestamp ==
    [ full     |-> << "2", "0", "2", "5", "-", "0", "9", "-", "1", "5", " ", "1", "2", ":", "2", "9", ":", "3", "0" >>,
      day      |-> << "2", "0", "2", "5", "-", "0", "9", "-", "1", "4" >>,
      hour     |-> << "2", "0", "2", "5", "-", "0", "9", "-", "1", "5", " ", "1", "2" >>,
      word     |-> << "y", "e", "s", "t", "e", "r", "d", "a", "y" >>,
      empty    |-> << >> ]
StoredTimestamps == { StoredTimestamp[name] : name \in DOMAIN StoredTimestamp }
StoredBuffers ==
    UNION { [1..n -> { StoredEntry(timestamp, SampleLine.plain) : timestamp \in StoredTimestamps }] :
                n \in 1..MaxEntries }

StoredInit ==
    /\ logs \in StoredBuffers
    /\ is_loading = FALSE
    /\ log_receiver = NoId
    /\ log_thread_handle = NoId
    /\ log_command = DefaultCommand
    /\ channels = << >>
    /\ workers = << >>
    /\ ui_pc = "idle"
    /\ new_logs = << >>
    /\ appended = << >>
    /\ delivered = << >>
    /\ sent = << >>
    /\ lastOp = "init"
    /\ DefaultQuery

\* The passing of time, the time span selector and the log list shown.
StoredNext ==
    \/ Tick
    \/ \E mode \in TimeSpanModes : SelectTimeSpan(mode)
    \/ Render

StoredSpec == StoredInit /\ [][StoredNext]_vars

\* ------------------------------------------------------------------ claims
Range(q) == { q[i] : i \in DOMAIN q }

\* C1: at every operation boundary, after any sequence of appends, clears and
\* restarts, the buffer holds at most 10,000 entries.
C1_LenAtMostCap == ui_pc = "idle" => Len(logs) <= LogCap

\* The cap is reached again after an eviction: 11,000 appends, 10,000 entries.
C1_Witness ==
    /\ lastOp = "append"
    /\ Len(appended) = LogCap + EvictCount
    /\ Len(logs) = LogCap

\* C2: an append at length 10,000 leaves 9,001 entries: the 1,000 oldest are
\* removed, the other 9,000 kept in place, the new entry last; an append below
\* 10,000 evicts nothing and adds one; from 9,001..10,000 appends stay in 9,001..10,000.
C2_AppendStep ==
    [][ lastOp' = "append" =>
          LET new == LogEntry(appended'[Len(appended')], clock)
          IN  /\ Len(logs) < LogCap => logs' = Append(logs, new)
              /\ Len(logs) = LogCap =>
                    /\ Len(logs') = LogCap - EvictCount + 1
                    /\ logs' = Append(SubSeq(logs, EvictCount + 1, LogCap), new)
              /\ Len(logs) \in (LogCap - EvictCount + 1)..LogCap =>
                    Len(logs') \in (LogCap - EvictCount + 1)..LogCap ]_vars

\* The append that found 10,000 entries has run.
C2_Witness ==
    /\ lastOp = "append"
    /\ Len(appended) = LogCap + 1
    /\ Len(logs) = LogCap - EvictCount + 1

\* C3: the buffer is the contiguous suffix, in arrival order, of the lines
\* appended since the last clear() or restart().
C3_BufferIsSuffix ==
    ui_pc = "idle" => IsSuffix(EntryLines(logs), appended)

\* After the second eviction: the 2,000 oldest appended lines are gone, the newest 9,001 retained.
C3_Witness ==
    /\ lastOp = "append"
    /\ Len(appended) = LogCap + EvictCount + 1
    /\ Len(logs) = LogCap - EvictCount + 1

\* The collection whose receiver and worker handle the controller holds.
Active(w) ==
    /\ w \in DOMAIN workers
    /\ log_thread_handle = w
    /\ log_receiver = workers[w].chan

\* Channels whose Receiver is alive.
LiveChannels == { c \in DOMAIN channels : channels[c].rx }

\* Worker threads that still exist and whose Sender faces a live Receiver.
ConnectedWorkers ==
    { w \in DOMAIN workers : workers[w].pc # "done" /\ channels[workers[w].chan].rx }

\* C4: start() with a collection handle recorded creates no channel, launches no
\* worker and leaves receiver, handle, loading flag and buffer as they were; after
\* any start() exactly one collection is active.
C4_StartIdempotent ==
    /\ [][ (lastOp' = "start" /\ log_thread_handle # NoId) =>
              UNCHANGED << channels, workers, log_receiver, log_thread_handle,
                           is_loading, logs >> ]_vars
    /\ [](lastOp = "start" => /\ Active(log_thread_handle)
                              /\ LiveChannels = {log_receiver})

\* start() has returned on a collection whose worker was already running.
C4_Witness ==
    /\ lastOp = "start"
    /\ log_thread_handle # NoId
    /\ workers[log_thread_handle].pc = "reading"
    /\ logs # << >>

\* C5: right after restart() the buffer is empty and exactly one collection is
\* active, on a channel and a worker created by this call, the worker not yet run
\* and holding the command of the time of the call; earlier workers are untouched.
C5_RestartStep ==
    [][ lastOp' = "restart" =>
          /\ logs' = << >>
          /\ Len(channels') = Len(channels) + 1
          /\ Len(workers') = Len(workers) + 1
          /\ log_receiver' = Len(channels')
          /\ log_thread_handle' = Len(workers')
          /\ channels'[log_receiver'] = NewChannel
          /\ workers'[log_thread_handle'] = NewWorker(log_command, log_receiver')
          /\ LiveChannels' = {log_receiver'}
          /\ SubSeq(workers', 1, Len(workers)) = workers ]_vars

\* restart() has returned while the previous worker is mid-send and the previous
\* collection had delivered a line that was still buffered.
C5_Witness ==
    /\ lastOp = "restart"
    /\ Len(workers) = 2
    /\ workers[1].pc = "sending"
    /\ delivered[1] # << >>
    /\ logs = << >>

\* C6: receiver and worker handle are both present or both absent, the handle's
\* worker owns the sender of the held receiver, and at most one existing worker
\* thread holds a sender whose receiver is alive.
C6_OneCollection ==
    /\ (log_receiver = NoId) <=> (log_thread_handle = NoId)
    /\ log_thread_handle # NoId => Active(log_thread_handle)
    /\ Cardinality(ConnectedWorkers) <= 1
    /\ Cardinality(LiveChannels) <= 1

\* Two worker threads exist at once, one of them detached.
C6_Witness ==
    /\ Len(workers) = 2
    /\ workers[1].pc = "reading"
    /\ workers[2].pc = "reading"
    /\ ConnectedWorkers = {2}

\* C7: only lines of the collection active at the time are appended; the queue of
\* a dropped receiver is discarded and stays empty; a worker that is not the
\* active one never completes a send, and no line sits in another worker's channel.
C7_NoStaleLines ==
    /\ [][ /\ \A e \in Range(logs') \ Range(logs) : Active(e.line.w)
           /\ \A w \in DOMAIN workers : ~Active(w) => sent'[w] = sent[w] ]_vars
    /\ [](\A c \in DOMAIN channels :
             /\ ~channels[c].rx => channels[c].queue = << >>
             /\ \A l \in Range(channels[c].queue) : workers[l.w].chan = c)
    /\ [](\A l \in Range(new_logs) : Active(l.w))

\* The first worker read a line and its send failed after the restart; the second
\* collection's line is in the buffer.
C7_Witness ==
    /\ Len(workers) = 2
    /\ workers[1].nread = 1
    /\ sent[1] = << >>
    /\ workers[1].pc \in {"waiting", "done"}
    /\ EntryLines(logs) = << Line(2, 1) >>

\* What worker w has sent is what was appended from it, then what update holds in
\* new_logs, then what is queued: nothing lost, duplicated or reordered.
C8_Conserved(w) ==
    Active(w) => delivered[w] \o new_logs \o channels[workers[w].chan].queue = sent[w]

\* C8: while a collection stays active every line sent is appended exactly once,
\* in send order, also once the worker has exited; with update() running on every
\* tick the n-th line the active worker has sent is eventually the n-th line
\* appended from it, unless stop() or restart() ends the collection first.
C8_Delivery ==
    /\ [](\A w \in DOMAIN workers :
             /\ C8_Conserved(w)
             /\ sent[w] = [i \in 1..Len(sent[w]) |-> Line(w, i)])
    /\ \A n \in 1..MaxLines :
          (log_thread_handle # NoId /\ Len(sent[log_thread_handle]) >= n)
             ~> \/ lastOp \in {"stop", "restart"}
                \/ log_thread_handle # NoId /\ Len(delivered[log_thread_handle]) >= n

\* The worker sent two lines and exited at end-of-file; both are in the buffer,
\* in send order.
C8_Witness ==
    /\ Active(1)
    /\ workers[1].pc = "done"
    /\ Len(sent[1]) = 2
    /\ delivered[1] = sent[1]
    /\ EntryLines(logs) = sent[1]

\* C9: stop() can complete whatever the worker is doing, and leaves no receiver
\* and no handle, the buffer, the loading flag and every worker thread untouched.
C9_StopNeverWaits ==
    /\ [](ui_pc = "idle" => ENABLED Stop)
    /\ [][ lastOp' = "stop" =>
              /\ log_receiver' = NoId
              /\ log_thread_handle' = NoId
              /\ UNCHANGED << logs, is_loading, workers >> ]_vars
    /\ [](lastOp = "stop" => LiveChannels = {})

\* stop() has returned while one detached worker is blocked reaping its child and
\* the worker just stopped is mid-send; the buffer still holds its entry.
C9_Witness ==
    /\ lastOp = "stop"
    /\ Len(workers) = 2
    /\ workers[1].pc = "waiting"
    /\ workers[2].pc = "sending"
    /\ logs # << >>

\* C10: update's receive loop can always take its next step, and a drain that
\* finds nothing (no receiver, empty queue, sender gone) leaves buffer, loading
\* flag, receiver and handle as they were.
C10_DrainNeverWaits ==
    /\ [](ENABLED (DrainRecv \/ DrainDone))
    /\ [](Pending = << >> => ENABLED DrainDone)
    /\ [][ (ui_pc = "idle" /\ lastOp' = "drain") =>
              UNCHANGED << logs, is_loading, log_receiver, log_thread_handle,
                           channels, workers >> ]_vars

\* A drain has returned on an active collection whose sender is gone with nothing
\* queued; the loading flag is still set.
C10_Witness ==
    /\ lastOp = "drain"
    /\ log_receiver # NoId
    /\ ~channels[log_receiver].tx
    /\ is_loading
    /\ logs = << >>

\* C11: the worker leaves its read loop only when a send fails or the stream is
\* at end-of-file; a line that fails to decode does not end the loop, so the
\* well-formed lines after it are still read and forwarded.
C11_ReadLoopSurvivesBadLine ==
    [][ \A w \in DOMAIN workers :
          /\ (workers[w].pc = "sending" /\ workers'[w].pc # "reading")
                => ~channels[workers[w].chan].rx
          /\ lastOp' = "read_err" => workers'[w].pc = workers[w].pc
      ]_vars

\* The worker w ended without having read a line: no tokens, a failed spawn, or
\* a child that wrote nothing.
Silent(w) == workers[w].pc = "done" /\ workers[w].nread = 0

\* What C12 states apart from how long the handle and the flag last: the worker
\* that finds no token or fails to spawn ends in that step, having sent nothing
\* and having written no field of the controller; no entry ever comes from it.
C12_Swallowed ==
    /\ [][ \A w \in DOMAIN workers :
             (workers[w].pc = "spawned" /\ workers'[w].pc \notin {"spawned", "reading"}) =>
                 /\ Silent(w)'
                 /\ sent'[w] = << >>
                 /\ UNCHANGED << logs, is_loading, log_receiver, log_thread_handle >>
         ]_vars
    /\ [](\A w \in DOMAIN workers :
             Silent(w) =>
                 /\ sent[w] = << >>
                 /\ delivered[w] = << >>
                 /\ \A i \in DOMAIN logs : logs[i].line.w # w
                 /\ log_thread_handle = w => is_loading)

\* C12 as stated: the handle stays recorded and the flag stays true until restart().
C12_UntilRestart ==
    /\ C12_Swallowed
    /\ [][ \A w \in DOMAIN workers :
             (Silent(w) /\ log_thread_handle = w /\ lastOp' # "restart")
                 => (log_thread_handle' = w /\ is_loading')
         ]_vars

\* C12 amended: the handle stays recorded and the flag stays true until
\* restart() or stop().
C12_UntilRestartOrStop ==
    /\ C12_Swallowed
    /\ [][ \A w \in DOMAIN workers :
             (Silent(w) /\ log_thread_handle = w /\ lastOp' \notin {"restart", "stop"})
                 => (log_thread_handle' = w /\ is_loading')
         ]_vars

\* A collection whose command had no token is still held after a drain and a
\* clear, the flag still true.
C12_Witness ==
    /\ lastOp = "clear"
    /\ log_thread_handle # NoId
    /\ Silent(log_thread_handle)
    /\ ~channels[log_receiver].tx
    /\ is_loading
    /\ log_command = << " " >>

\* C13: a start()/restart() that launches a worker sets the loading flag; a
\* drain that received no line leaves it as it was; a drain that appends clears
\* it; and it is set again only by a start()/restart() that launches a worker.
C13_LoadingFlag ==
    [][ /\ (lastOp' \in {"start", "restart"} /\ Len(workers') > Len(workers)) => is_loading'
        /\ (lastOp' = "drain" /\ new_logs = << >>) => is_loading' = is_loading
        /\ (lastOp' = "drain" /\ new_logs # << >>) => ~is_loading'
        /\ (~is_loading /\ is_loading')
              => (lastOp' \in {"start", "restart"} /\ Len(workers') > Len(workers))
      ]_vars

\* The first lines of a collection have been appended: the flag is down while
\* the collection is still held.
C13_Witness ==
    /\ lastOp = "drain"
    /\ log_thread_handle # NoId
    /\ delivered[log_thread_handle] # << >>
    /\ ~is_loading

\* C19: every entry in the buffer has a timestamp of the canonical form
\* YYYY-MM-DD HH:MM:SS: the extracted one when the extractor yields one,
\* otherwise the wall clock of the append, to the second; and the timestamp of
\* every stored entry parses under the filter's time parser.
IsCanonical(str) ==
    /\ Len(str) = 19
    /\ \A i \in 1..19 :
          CASE i \in {5, 8}   -> str[i] = "-"
            [] i = 11         -> str[i] = " "
            [] i \in {14, 17} -> str[i] = ":"
            [] OTHER          -> IsDigit(str[i])
Extracted(entry) == Extraction[entry.line.text, entry.at]
C19_CanonicalTimestamps ==
    \A i \in DOMAIN logs :
        LET timestamp == Timestamp(logs[i])
            wall      == Instants[logs[i].at]
        IN  /\ IsCanonical(timestamp)
            /\ parse_time_input(timestamp) # None
            /\ Extracted(logs[i]).timestamp # None =>
                   timestamp = Unwrap(Extracted(logs[i]).timestamp)
            /\ Extracted(logs[i]).timestamp = None =>
                   parse_time_input(timestamp) = Some([wall EXCEPT !.nano = 0])

\* An entry with an extracted timestamp next to one stamped by a later clock.
C19_Witness ==
    /\ lastOp = "append"
    /\ \E i, j \in DOMAIN logs :
          /\ Extracted(logs[i]).timestamp # None
          /\ Extracted(logs[j]).timestamp = None
          /\ logs[j].at > 1

\* C20: extract returns the result of the first pattern, in the order 1..8,
\* that matches the line and whose capture parses under its format; a pattern
\* that matches but does not parse does not end the cascade; if all eight fail
\* there is no timestamp and the content is the raw line. A line with
\* "2025-09-15 14:30:00" resolves via a full date-time pattern.
Succeeds(k, content, now) ==
    /\ Captured(Patterns[k], content) # None
    /\ ParseCaptured(Patterns[k], Unwrap(Captured(Patterns[k], content)), now) # None
Successes ==
    [ text \in SampleLines, at \in DOMAIN Instants |->
          { k \in DOMAIN Patterns : Succeeds(k, text, Instants[at]) } ]
FirstSuccess ==
    [ text \in SampleLines, at \in DOMAIN Instants |->
          IF Successes[text, at] = { } THEN None
          ELSE LET k       == CHOOSE k \in Successes[text, at] :
                                  \A j \in Successes[text, at] : k <= j
                   capture == Unwrap(Captured(Patterns[k], text))
                   parsed  == Unwrap(ParseCaptured(Patterns[k], capture, Instants[at]))
               IN  Some([ timestamp |-> Some(FormatDateTime(parsed)),
                          content   |-> trim(RemoveAll(text, capture)) ]) ]
FullDateTime == << "2", "0", "2", "5", "-", "0", "9", "-", "1", "5", " ",
                   "1", "4", ":", "3", "0", ":", "0", "0" >>
HasFullDateTime == { text \in SampleLines : contains(text, FullDateTime) }
C20_FirstSuccessWins ==
    \A i \in DOMAIN logs :
        LET content == logs[i].line.text
            at      == logs[i].at
            result  == Extracted(logs[i])
        IN  /\ FirstSuccess[content, at] # None => result = Unwrap(FirstSuccess[content, at])
            /\ FirstSuccess[content, at] = None =>
                  result = [timestamp |-> None, content |-> content]
            /\ content \in HasFullDateTime =>
                  /\ result.timestamp = Some(FullDateTime)
                  /\ Successes[content, at] \cap (1..3) # { }

\* A line where patterns 1 and 6 match text their formats reject and pattern 8
\* succeeds, next to a line no pattern succeeds on.
C20_Witness ==
    /\ lastOp = "append"
    /\ \E i, j \in DOMAIN logs :
          /\ logs[i].line.text = SampleLine.iso_bare
          /\ Extracted(logs[i]).timestamp # None
          /\ Successes[logs[i].line.text, logs[i].at] = { 8 }
          /\ logs[j].line.text = SampleLine.time_ms
          /\ Extracted(logs[j]).timestamp = None

\* C14: filter returns exactly the buffered entries for which the level
\* predicate, the search predicate and the time predicate all hold; the search
\* predicate holds iff the search text is empty or the case-folded content or
\* the case-folded timestamp contains the case-folded search text. For
\* A = "ERROR disk full", B = "INFO ok" and selectedLevels = {error}: Include
\* gives {A}, Exclude {B}, Include with "disk" {A}, Include with "network" {}.
SearchHolds(entry) ==
    \/ search_text = << >>
    \/ contains(to_lowercase(Content(entry)), to_lowercase(search_text))
    \/ contains(to_lowercase(Timestamp(entry)), to_lowercase(search_text))
Increasing(q) == \A i \in 1..(Len(q) - 1) : q[i] < q[i + 1]
BufferAB == EntryLines(logs) = << TextLine(1, SampleLine.plain), TextLine(2, SampleLine.info) >>
OnlyError == selected_log_levels = { Levels[7].level_key } /\ time_span_mode = Disabled
C14_VisibleIffAllThree ==
    lastOp = "filter" =>
        /\ Increasing(shown)
        /\ \A i \in DOMAIN logs :
              i \in Range(shown) <=>
                  /\ matches_filter(FilterFields, Content(logs[i]))
                  /\ SearchHolds(logs[i])
                  /\ matches_time(FilterFields, Timestamp(logs[i]), Instants[now_reads[i]])
        /\ (BufferAB /\ OnlyError) =>
              /\ (filter_mode = "IncludeSelected" /\ search_text = SearchText.none) => shown = << 1 >>
              /\ (filter_mode = "ExcludeSelected" /\ search_text = SearchText.none) => shown = << 2 >>
              /\ (filter_mode = "IncludeSelected" /\ search_text = SearchText.disk) => shown = << 1 >>
              /\ (filter_mode = "IncludeSelected" /\ search_text = SearchText.network) => shown = << >>

\* A and B filtered with {error}, Include and the search text "disk".
C14_Witness ==
    /\ lastOp = "filter"
    /\ BufferAB /\ OnlyError
    /\ filter_mode = "IncludeSelected"
    /\ search_text = SearchText.disk
    /\ shown = << 1 >>

\* C15: with no level selected every entry passes the level predicate in both
\* modes; otherwise an entry passes in Include mode iff its case-folded content
\* contains a selected token, and in Exclude mode iff it does not, so that for
\* the same buffer, search text and time window the Include and the Exclude
\* results are disjoint and together are the result with no level selected.
HasSelectedToken(entry) ==
    \E token \in selected_log_levels : contains(to_lowercase(Content(entry)), token)
LevelHolds(entry) ==
    \/ selected_log_levels = { }
    \/ filter_mode = "IncludeSelected" /\ HasSelectedToken(entry)
    \/ filter_mode = "ExcludeSelected" /\ ~HasSelectedToken(entry)
ResultWith(mode, levels) ==
    Range(filtered_logs([FilterFields EXCEPT !.filter_mode = mode,
                                             !.selected_log_levels = levels],
                        logs, now_reads))
C15_LevelPolarity ==
    lastOp = "filter" =>
        /\ \A i \in DOMAIN logs :
              i \in Range(shown) <=>
                  /\ LevelHolds(logs[i])
                  /\ matches_search(FilterFields, Timestamp(logs[i]), Content(logs[i]))
                  /\ matches_time(FilterFields, Timestamp(logs[i]), Instants[now_reads[i]])
        /\ Range(shown) = ResultWith(filter_mode, selected_log_levels)
        /\ selected_log_levels # { } =>
              LET include == ResultWith("IncludeSelected", selected_log_levels)
                  exclude == ResultWith("ExcludeSelected", selected_log_levels)
              IN  /\ include \cap exclude = { }
                  /\ include \cup exclude = ResultWith(filter_mode, { })

\* Exclude with {error} on a buffer with an ERROR line and an INFO line: the
\* INFO line alone is shown.
C15_Witness ==
    /\ lastOp = "filter"
    /\ filter_mode = "ExcludeSelected"
    /\ selected_log_levels = { Levels[7].level_key }
    /\ search_text = << >>
    /\ \E i, j \in DOMAIN logs :
          /\ logs[i].line.text = SampleLine.plain
          /\ logs[j].line.text = SampleLine.info
          /\ shown = << j >>

\* C16: with a Predefined span or Relative(amount, unit) and d the span's
\* duration (15m, 30m, 1h, 6h, 24h, 3d, 7d, 30d) or amount times the unit, an
\* entry whose timestamp parses to t passes the time predicate iff
\* now - d <= t <= now, both bounds inclusive; with Disabled every entry passes.
\* For Relative(1, hours) and now = T an entry at T - 30min matches and an
\* entry at T - 2h does not.
SpanSeconds ==
    [ Last15Minutes |-> 900, Last30Minutes |-> 1800, Last1Hour |-> 3600,
      Last6Hours |-> 21600, Last24Hours |-> 86400, Last3Days |-> 259200,
      Last1Week |-> 604800, Last1Month |-> 2592000 ]
UnitSeconds == [ Minutes |-> 60, Hours |-> 3600, Days |-> 86400 ]
WindowSeconds ==
    IF time_span_mode = Relative
    THEN relative_amount * UnitSeconds[relative_unit]
    ELSE SpanSeconds[time_span_mode[2]]
OtherTwoHold(entry) ==
    /\ matches_filter(FilterFields, Content(entry))
    /\ matches_search(FilterFields, Timestamp(entry), Content(entry))
HalfHourBefore == << "2", "0", "2", "5", "-", "0", "9", "-", "1", "5", " ", "1", "3", ":", "5", "9", ":", "3", "0" >>
TwoHoursBefore == << "2", "0", "2", "5", "-", "0", "9", "-", "1", "5", " ", "1", "2", ":", "2", "9", ":", "3", "0" >>
C16_WindowInclusive ==
    lastOp = "filter" =>
        \A i \in DOMAIN logs :
            LET t   == parse_time_input(Timestamp(logs[i]))
                now == Instants[now_reads[i]]
            IN  /\ time_span_mode = Disabled =>
                      (i \in Range(shown) <=> OtherTwoHold(logs[i]))
                /\ (ReadsClock(time_span_mode) /\ t # None) =>
                      (i \in Range(shown) <=>
                          /\ OtherTwoHold(logs[i])
                          /\ DateTimeLeq(SubSeconds(now, WindowSeconds), Unwrap(t))
                          /\ DateTimeLeq(Unwrap(t), now))
                /\ ( /\ time_span_mode = Relative
                     /\ relative_amount = 1 /\ relative_unit = "Hours"
                     /\ now = Instants[2]
                     /\ OtherTwoHold(logs[i]) ) =>
                      /\ Timestamp(logs[i]) = HalfHourBefore => i \in Range(shown)
                      /\ Timestamp(logs[i]) = TwoHoursBefore => i \notin Range(shown)

\* Relative(1, hours) at T: the entry of T - 30min is shown, that of T - 2h is not.
C16_Witness ==
    /\ lastOp = "filter"
    /\ time_span_mode = Relative /\ relative_amount = 1 /\ relative_unit = "Hours"
    /\ Len(logs) = 2
    /\ now_reads = << 2, 2 >>
    /\ Timestamp(logs[1]) = TwoHoursBefore
    /\ Timestamp(logs[2]) = HalfHourBefore
    /\ shown = << 2 >>

\* C17: with the Custom time span, if the fields of either bound are not a
\* valid calendar date and time, the resolver yields no range and the time
\* predicate passes every entry; if both are valid the range is from the
\* "from" fields at second 0 to the "to" fields at second 59.
ValidBound(bound) ==
    /\ bound.month \in 1..12
    /\ bound.day >= 1
    /\ bound.day <= (CASE bound.month \in {4, 6, 9, 11} -> 30
                       [] bound.month = 2 -> IF IsLeapYear(bound.year) THEN 29 ELSE 28
                       [] OTHER -> 31)
    /\ bound.hour \in 0..23
    /\ bound.minute \in 0..59
AtSecond(bound, second) ==
    NaiveDateTime(bound.year, bound.month, bound.day,
                  bound.hour * 3600 + bound.minute * 60 + second, 0)
C17_CustomBounds ==
    (lastOp = "filter" /\ time_span_mode = Custom) =>
        /\ ~(ValidBound(custom_from) /\ ValidBound(custom_to)) =>
              /\ get_time_range(FilterFields, Instants[clock]) = None
              /\ \A i \in DOMAIN logs : i \in Range(shown) <=> OtherTwoHold(logs[i])
        /\ (ValidBound(custom_from) /\ ValidBound(custom_to)) =>
              /\ get_time_range(FilterFields, Instants[clock]) =
                     Some([from |-> AtSecond(custom_from, 0), to |-> AtSecond(custom_to, 59)])
              /\ \A i \in DOMAIN logs :
                    LET t == Unwrap(parse_time_input(Timestamp(logs[i])))
                    IN  i \in Range(shown) <=>
                            /\ OtherTwoHold(logs[i])
                            /\ DateTimeLeq(AtSecond(custom_from, 0), t)
                            /\ DateTimeLeq(t, AtSecond(custom_to, 59))

\* "To" set to September 31st, 13:59: both entries are shown, one of them
\* stamped 14:29:30, after what the bound would be on a day that exists.
C17_Witness ==
    /\ lastOp = "filter"
    /\ time_span_mode = Custom
    /\ custom_to.day = 31 /\ custom_to.hour = 13
    /\ Len(logs) = 2
    /\ logs[2].line.text = SampleLine.plain /\ logs[2].at = 2
    /\ shown = << 1, 2 >>

\* C18: under any active time range, an entry whose timestamp string does not
\* parse under any of the parser's formats passes the time predicate: the time
\* filter never hides it.
ActiveRange(i) == get_time_range(FilterFields, Instants[now_reads[i]]) # None
C18_UnparsedNeverHidden ==
    lastOp = "filter" =>
        \A i \in DOMAIN logs :
            (ActiveRange(i) /\ parse_time_input(Timestamp(logs[i])) = None) =>
                (i \in Range(shown) <=> OtherTwoHold(logs[i]))

\* Last 15 minutes over an entry stamped "yesterday" and an entry stamped hours
\* ago: the first is shown, the second is not.
C18_Witness ==
    /\ lastOp = "filter"
    /\ time_span_mode = Predefined("Last15Minutes")
    /\ Len(logs) = 2
    /\ logs[1].timestamp = StoredTimestamp.word
    /\ logs[2].timestamp = StoredTimestamp.full
    /\ shown = << 1 >>

\* The timestamp each line of one shape carries, and the canonical form of the
\* instant it names where the shape has a date (the syslog shape in the year
\* of the clock, the time-only shape on the day of the clock).
OneStamp ==
    [ iso_z     |-> [ stamp |-> SubSeq(SampleLine.iso_z, 1, 20),     instant |-> FullDateTime ],
      spaced_ms |-> [ stamp |-> SubSeq(SampleLine.spaced_ms, 1, 23), instant |-> FullDateTime ],
      spaced    |-> [ stamp |-> SubSeq(SampleLine.spaced, 1, 19),    instant |-> FullDateTime ],
      syslog    |-> [ stamp |-> SubSeq(SampleLine.syslog, 1, 15),
                      instant |-> [FullDateTime EXCEPT ![9] = "0", ![10] = "5"] ],
      time_ms   |-> [ stamp |-> SubSeq(SampleLine.time_ms, 1, 12),   instant |-> FullDateTime ],
      slash     |-> [ stamp |-> SubSeq(SampleLine.slash, 1, 19),     instant |-> FullDateTime ],
      epoch     |-> [ stamp |-> SubSeq(SampleLine.epoch, 1, 10),     instant |-> << >> ] ]

\* C21: for a line with exactly one instance of one of the eight shapes,
\* extract returns a canonical timestamp, the one of the instant the instance
\* names, and a content that is the line without that instance (surrounding
\* white space aside, as in the spec's example).
C21_OneShapeRoundTrip ==
    \A i \in DOMAIN logs :
        \A name \in DOMAIN OneStamp :
            logs[i].line.text = SampleLine[name] =>
                LET result == Extracted(logs[i])
                    stamp  == OneStamp[name].stamp
                    rest   == SubSeq(SampleLine[name], Len(stamp) + 1, Len(SampleLine[name]))
                IN  /\ result.timestamp # None
                    /\ IsCanonical(Unwrap(result.timestamp))
                    /\ OneStamp[name].instant # << >> =>
                           Unwrap(result.timestamp) = OneStamp[name].instant
                    /\ result.content = trim(rest)

\* C22: filter is a pure query. It leaves the buffer, the filter state, the
\* collection handle and the loading flag unchanged; its result is a
\* subsequence of the buffer in buffer order; and a call that follows another
\* on the same buffer and filter state, reading the same time, returns the same
\* result.
C22_PureQuery ==
    /\ [][ lastOp' = "filter" =>
              /\ UNCHANGED << logs, level_fields, time_fields, log_receiver,
                              log_thread_handle, is_loading >>
              /\ Increasing(shown')
              /\ Range(shown') \subseteq DOMAIN logs
              /\ (lastOp = "filter" /\ now_reads' = now_reads) => shown' = shown
         ]_vars
    /\ [](lastOp = "filter" => Increasing(shown) /\ Range(shown) \subseteq DOMAIN logs)

\* A call under a range resolved from the clock has kept one of two entries.
C22_Witness ==
    /\ lastOp = "filter"
    /\ ReadsClock(time_span_mode)
    /\ Len(logs) = 2
    /\ shown = << 2 >>

\* C23: within one filter call a Predefined or Relative span is resolved to a
\* single window, with one value of now, and every entry of the buffer is
\* compared against that window, also when the clock advances during the call.
C23_SingleWindow ==
    (lastOp = "filter" /\ ReadsClock(time_span_mode)) =>
        \E now \in DOMAIN Instants :
            shown = filtered_logs(FilterFields, logs, [i \in DOMAIN logs |-> now])

\* The Receiver that worker w sends to has been dropped.
Disconnected(w) == ~channels[workers[w].chan].rx

\* C24: once stop() has dropped the receiver the worker reads at most one more
\* line, its send of that line fails and ends the read loop, it reads no
\* further line, it reaps the child before its thread ends, and it delivers
\* nothing after the drop. What the worker has read is then at most one line
\* more than what it sent, and after that line it is no longer reading.
C24_StoppedWorkerWindsDown ==
    /\ [](\A w \in DOMAIN workers :
             Disconnected(w) =>
                /\ workers[w].nread <= Len(sent[w]) + 1
                /\ workers[w].nread = Len(sent[w]) + 1 =>
                       workers[w].pc \in {"sending", "waiting", "done"})
    /\ [][ \A w \in DOMAIN workers :
              /\ Disconnected(w) =>
                    /\ sent'[w] = sent[w]
                    /\ delivered'[w] = delivered[w]
                    /\ workers[w].pc = "sending" =>
                          /\ workers'[w].pc \in {"sending", "waiting"}
                          /\ workers'[w].nread = workers[w].nread
              /\ (workers[w].pc \in {"reading", "sending", "waiting"} /\ workers'[w].pc = "done")
                    => workers[w].pc = "waiting"
         ]_vars

\* After stop() the worker read a second line, failed to send it, reaped the
\* child and ended; only its first line was ever sent.
C24_Witness ==
    /\ log_receiver = NoId
    /\ log_thread_handle = NoId
    /\ \E w \in DOMAIN workers :
          /\ Disconnected(w)
          /\ workers[w].pc = "done"
          /\ workers[w].nread = 2
          /\ Len(sent[w]) = 1

\* C25: every worker whose collection has been stopped or replaced eventually
\* terminates under fair scheduling of the worker, whatever its child does,
\* also when the child stays alive without writing or closing its output.
C25_StoppedWorkerTerminates ==
    \A w \in 1..MaxCollections :
        (w \in DOMAIN workers /\ Disconnected(w))
            ~> (w \in DOMAIN workers /\ workers[w].pc = "done")

\* The worker is waiting on its child: in reader.lines() for the next line or
\* the end of the output, or in child.wait() for its exit.
WaitsOnChild(w) == workers[w].pc \in {"reading", "waiting"}

\* C25 as amended: under fair scheduling of the worker, a worker whose
\* collection has been stopped or replaced eventually terminates or is waiting
\* on its child, and it stays alive only while it does so.
C25_TerminatesOrWaitsOnChild ==
    \A w \in 1..MaxCollections :
        (w \in DOMAIN workers /\ Disconnected(w))
            ~> (w \in DOMAIN workers /\ (workers[w].pc = "done" \/ WaitsOnChild(w)))

\* Two workers are alive after a restart: the replaced one waits on its child,
\* the new one has spawned its own.
C25_Witness ==
    /\ Len(workers) = 2
    /\ Active(2)
    /\ Disconnected(1)
    /\ WaitsOnChild(1)
    /\ workers[2].pc = "reading"

\* C26: every drain() call terminates after finitely many receives, in every
\* interleaving with the worker, also when the worker keeps sending while the
\* receive loop runs: a receive loop that has started comes to its end.
C26_DrainTerminates == (ui_pc = "recv") ~> (ui_pc = "idle")

\* C27: after the worker has ended on its own (end-of-file, read error, spawn
\* failure, empty command) the collection is still recorded as active: the
\* worker's end leaves handle and receiver in place, start() changes nothing,
\* a drain that finds the queue empty changes nothing, and a new worker is
\* launched only by restart(), which empties the buffer, or by start() after
\* stop().
C27_EndedWorkerStaysRecorded ==
    [][ /\ \A w \in DOMAIN workers :
              /\ (Active(w) /\ workers[w].pc # "done" /\ workers'[w].pc = "done")
                    => Active(w)'
              /\ (Active(w) /\ workers[w].pc = "done") =>
                    /\ lastOp' \notin {"stop", "restart"} => Active(w)'
                    /\ lastOp' = "start" =>
                          UNCHANGED << logs, is_loading, log_receiver, log_thread_handle,
                                       channels, workers >>
                    /\ (ui_pc = "idle" /\ Pending = << >> /\ lastOp' = "drain") =>
                          UNCHANGED << logs, is_loading, log_receiver, log_thread_handle,
                                       channels, workers >>
                    /\ Len(workers') > Len(workers) =>
                          lastOp' = "restart" /\ logs' = << >>
        /\ Len(workers') > Len(workers) =>
              \/ lastOp' = "restart"
              \/ lastOp' = "start" /\ log_thread_handle = NoId
      ]_vars

\* The worker ended when its spawn failed or its child closed its output
\* without a line; a later start() was a no-op and the loading flag is still set.
C27_Witness ==
    /\ lastOp = "start"
    /\ Len(workers) = 1
    /\ Active(1)
    /\ workers[1].pc = "done"
    /\ Pending = << >>
    /\ is_loading

\* C28: whenever the level selector shows "All Levels" the set of selected
\* levels is empty; in the initial filter state (selector on "All Levels",
\* mode Include, empty search, time span Disabled) every buffered entry is
\* visible.
C28_AllLevelsShowsAll ==
    (lastOp = "filter" /\ current_level_filter = Levels[1].display_name) =>
        /\ selected_log_levels = { }
        /\ (filter_mode = "IncludeSelected" /\ search_text = << >> /\ time_span_mode = Disabled)
              => shown = [i \in DOMAIN logs |-> i]

\* C29: in every state reachable by start(), stop(), restart(), drain() and
\* clear() the loading flag is true only while the buffer is empty.
C29_LoadingOnlyWhileEmpty == is_loading => logs = << >>

\* C29 as amended: the loading flag is true only while the buffer holds no
\* entry of the collection launched last; it comes to be true over a non-empty
\* buffer only by a start() with no collection recorded, that is after a
\* stop(), and otherwise it is true only while the buffer is empty.
C29_LoadingOnlyBeforeFirstEntry ==
    /\ [](is_loading =>
             /\ workers # << >>
             /\ \A i \in DOMAIN logs : logs[i].line.w # Len(workers))
    /\ [][ (is_loading' /\ logs' # << >> /\ ~(is_loading /\ logs # << >>)) =>
              (lastOp' = "start" /\ log_thread_handle = NoId /\ logs' = logs)
         ]_vars

\* start() after stop() has raised the flag over the entries of the stopped
\* collection.
C29_Witness ==
    /\ lastOp = "start"
    /\ is_loading
    /\ Active(2)
    /\ logs # << >>
    /\ \A i \in DOMAIN logs : logs[i].line.w = 1

\* C30: while a collection is active and update() keeps running, the worker
\* and its child never wait on each other for ever, whatever the child writes
\* to its standard error: a read of the child's output returns, with the next
\* line or with the end of the output, and every line read is then appended.
C30_NoPipeDeadlock ==
    \A w \in 1..MaxCollections :
        /\ (w \in DOMAIN workers /\ Active(w) /\ workers[w].pc = "reading")
              ~> (w \in DOMAIN workers /\ (~Active(w) \/ workers[w].pc # "reading"))
        /\ \A n \in 1..MaxLines :
              (w \in DOMAIN workers /\ Active(w) /\ workers[w].nread >= n)
                 ~> (w \in DOMAIN workers /\ (~Active(w) \/ Len(delivered[w]) >= n))

====
